---- MODULE Spec2Model ----
(***************************************************************************)
(* Model of the real-time price pipeline:                                  *)
(*   realtime_prices/database.py  PriceDatabase (aggregate store)          *)
(*   realtime_prices/streamer.py  AngelPriceStreamer (feed controller)     *)
(*   realtime_prices/api.py       WebSocketManager (registry + fanout)     *)
(*                                                                         *)
(* Conventions.                                                            *)
(*  - A Python string that may hold '_' is the sequence of its             *)
(*    '_'-separated parts: "NSE_INDEX" is <<"NSE","INDEX">>, so            *)
(*    f"{a}_{b}" is a \o b and s.split('_') is s itself.                   *)
(*  - An optional value (a dict key that may be missing) is a set with at  *)
(*    most one element: {} is "missing", {v} is "present with value v".    *)
(*  - Money is an integer number of mills (1/1000 of a currency unit); a   *)
(*    DECIMAL(12,2) column holds a multiple of 10 mills.                   *)
(*  - Time is an integer number of milliseconds.                           *)
(***************************************************************************)
EXTENDS Integers, Sequences, FiniteSets, TLC

VARIABLES
    \* ---- PriceDatabase ------------------------------------------------
    today,            \* date.today() / CURRENT_DATE
    prices,           \* table prices: <<date, symbol, exchange>> -> row
    real_time_ticks,  \* table real_time_ticks, in insertion order
    tick_id_seq,      \* sequence tick_id_seq: the next value of nextval()
    _last_cleanup,    \* AngelPriceStreamer._last_cleanup: None until the first sweep
    cleanup_wake,     \* when the API's periodic_cleanup task's sleep(3600) ends
    _lock,            \* PriceDatabase._lock: None, or the thread that holds it
    threads,          \* thread -> where its PriceDatabase call stands
    \* ---- AngelPriceStreamer: feed callback ----------------------------
    _last_db_update,  \* <<symbol, exchange>> -> time of the last write
    stats,            \* stats['db_updates'], stats['broadcast_count'], ...
    _subscribers,     \* set of the streamer's direct subscribers (websockets)
    direct,           \* _broadcast_update tasks suspended in a direct send
    now,              \* time.time()
    \* ---- event loop ----------------------------------------------------
    tasks,            \* ready queue of the asyncio loop (FIFO)
    \* ---- WebSocketManager ----------------------------------------------
    active_connections, \* list of connected websockets
    subscriptions,      \* websocket -> list of symbol keys
    latest_prices,      \* symbol key -> latest message (dict, insertion order in lp_order)
    lp_order,           \* insertion order of the keys of latest_prices
    last_sent,          \* symbol key -> time of the last push
    push,               \* the price_pusher_task's push_latest_prices frame
    inflight,           \* manager.broadcast() tasks suspended in a send
    rest_pending,       \* GET /price requests awaiting the broker's quote
    endpoints,          \* websocket -> where its websocket_endpoint() stands
    \* ---- AngelPriceStreamer: connection lifecycle -----------------------
    symbols,          \* self.symbols: the configured (symbol, exchange) list
    auth_token,       \* self.auth_token: None until authenticate() succeeds
    feed_token,       \* self.feed_token
    running,
    connected,
    reconnect_attempts,
    ws_adapter,       \* index of the current adapter in adapters, 0 = None
    adapters,         \* every AngelWebSocketAdapter created so far
    loops,            \* the start_streaming() tasks and where each one stands
    \* ---- observation (history variables, never read by the program) ----
    obs

vars == <<today, _last_cleanup, cleanup_wake, _lock, threads, prices, real_time_ticks, tick_id_seq,
          _last_db_update, stats,
          _subscribers, direct, symbols, auth_token, feed_token, now,
          tasks, active_connections, subscriptions, latest_prices, lp_order,
          last_sent, push, inflight, rest_pending, endpoints, running, connected, reconnect_attempts, ws_adapter,
          adapters, loops, obs>>

lockVars == <<_lock, threads>>
dateVars == <<today, _last_cleanup, cleanup_wake, lockVars>>
dbVars   == <<dateVars, prices, real_time_ticks, tick_id_seq>>
feedVars == <<_last_db_update, stats, direct>>
mgrVars  == <<active_connections, subscriptions, latest_prices, lp_order, last_sent, push,
             inflight, endpoints>>
authVars == <<auth_token, feed_token>>
ctlVars  == <<running, connected, reconnect_attempts, ws_adapter, adapters, loops,
             _subscribers, symbols, authVars>>

-----------------------------------------------------------------------------
(* Python values *)

None == {}
Some(v) == {v}
Val(o) == CHOOSE v \in o : TRUE
\* dict.get(key, default)
Get(o, d) == IF o = None THEN d ELSE Val(o)
\* truthiness of an optional number: missing, None and 0 are falsy
Truthy(o) == o # None /\ o # {0}
\* Python's `a or b`
Or(a, b) == IF Truthy(a) THEN a ELSE b

Max2(a, b) == IF a >= b THEN a ELSE b
Min2(a, b) == IF a <= b THEN a ELSE b

\* A Python float bound to a DECIMAL(12,2) column: rounded to the nearest cent
\* (10 mills), half away from zero.
RoundCents(x) ==
    IF x >= 0 THEN ((x + 5) \div 10) * 10 ELSE 0 - (((5 - x) \div 10) * 10)

-----------------------------------------------------------------------------
(* PriceDatabase: realtime_prices/database.py *)

\* The outcomes of the SQL statements of one upsert_price call:
\*   "none"  every statement succeeds
\*   "db"    the SELECT / UPDATE / INSERT INTO prices (or a float()/int()
\*           conversion before it) raises: caught at line 184
\*   "tick"  the INSERT INTO real_time_ticks raises after nextval(): caught
\*           inside _insert_tick at line 208
Faults == {"none", "db", "tick"}

\* (a key that leaves the date out)
RowKeyNoDate(symbol, exchange) == <<1, symbol, exchange>>
RowKey(symbol, exchange) == <<today, symbol, exchange>>

\* SELECT ... FROM prices WHERE date = ? AND symbol = ? AND exchange = ?
HasRow(symbol, exchange) == RowKey(symbol, exchange) \in DOMAIN prices
RowOf(symbol, exchange) == prices[RowKey(symbol, exchange)]

\* (an UPDATE that stores the tick's own volume and open interest)
UpdatedRowLatest(old, price_data) ==
    [old EXCEPT !.high = RoundCents(Max2(old.high, Get(price_data.ltp, 0))),
                !.low = RoundCents(IF old.low > 0 THEN Min2(old.low, Get(price_data.ltp, 0))
                                                 ELSE Get(price_data.ltp, 0)),
                !.close = RoundCents(Get(price_data.ltp, 0)),
                !.volume = Get(price_data.volume, 0),
                !.oi = Get(price_data.oi, 0)]
\* upsert_price, the branch `if existing:` (UPDATE prices SET ...)
UpdatedRow(old, price_data) ==
    LET current_price == Get(price_data.ltp, 0)
        volume == Get(price_data.volume, 0)
        oi == Get(price_data.oi, 0)
        new_high == Max2(old.high, current_price)
        new_low == IF old.low > 0 THEN Min2(old.low, current_price) ELSE current_price
        new_volume == Max2(old.volume, volume)
        new_oi == IF oi > 0 THEN oi ELSE old.oi
    IN [old EXCEPT !.high = RoundCents(new_high),
                   !.low = RoundCents(new_low),
                   !.close = RoundCents(current_price),
                   !.volume = new_volume,
                   !.oi = new_oi]

\* upsert_price, the branch `else:` (INSERT INTO prices ...)
InsertedRow(price_data) ==
    LET current_price == Get(price_data.ltp, 0)
        volume == Get(price_data.volume, 0)
        oi == Get(price_data.oi, 0)
        open_price == Get(price_data.open, current_price)
        high_price == Get(price_data.high, current_price)
        low_price == Get(price_data.low, current_price)
    IN [open |-> RoundCents(open_price),
        high |-> RoundCents(high_price),
        low |-> RoundCents(low_price),
        close |-> RoundCents(current_price),
        volume |-> volume,
        oi |-> oi]

\* _insert_tick: the row appended to real_time_ticks
TickRow(tick_id, symbol, exchange, price_data) ==
    [id |-> tick_id,
     timestamp |-> now,
     symbol |-> symbol,
     exchange |-> exchange,
     ltp |-> RoundCents(Get(price_data.ltp, 0)),
     volume |-> Get(price_data.volume, 0),
     oi |-> Get(price_data.oi, 0),
     bid |-> RoundCents(Get(price_data.bid, 0)),
     ask |-> RoundCents(Get(price_data.ask, 0))]

\* (an upsert whose failure comes after the row was written)
upsert_priceLateFailure(symbol, exchange, price_data, fault) ==
    LET k == RowKey(symbol, exchange)
        row == IF HasRow(symbol, exchange)
               THEN UpdatedRow(RowOf(symbol, exchange), price_data)
               ELSE InsertedRow(price_data)
    IN [ok |-> fault # "db",
        prices |-> [x \in (DOMAIN prices) \cup {k} |-> IF x = k THEN row ELSE prices[x]],
        ticks |-> IF fault = "none"
                  THEN Append(real_time_ticks, TickRow(tick_id_seq, symbol, exchange, price_data))
                  ELSE real_time_ticks,
        seq |-> tick_id_seq + 1]
\* upsert_price(symbol, exchange, price_data): the value returned and the
\* tables after the call, all under self._lock.
upsert_price(symbol, exchange, price_data, fault) ==
    IF fault = "db"
    THEN [ok |-> FALSE, prices |-> prices, ticks |-> real_time_ticks, seq |-> tick_id_seq]
    ELSE
      LET k == RowKey(symbol, exchange)
          row == IF HasRow(symbol, exchange)
                 THEN UpdatedRow(RowOf(symbol, exchange), price_data)
                 ELSE InsertedRow(price_data)
          newPrices == [x \in (DOMAIN prices) \cup {k} |-> IF x = k THEN row ELSE prices[x]]
      IN [ok |-> TRUE,
          prices |-> newPrices,
          ticks |-> IF fault = "tick" THEN real_time_ticks
                    ELSE Append(real_time_ticks,
                                TickRow(tick_id_seq, symbol, exchange, price_data)),
          seq |-> tick_id_seq + 1]

\* get_current_price(symbol, exchange): today's row as a dict, or None
db_get_current_price(symbol, exchange) ==
    IF HasRow(symbol, exchange)
    THEN LET r == RowOf(symbol, exchange) IN
         Some([symbol |-> symbol, exchange |-> exchange, open |-> r.open,
               high |-> r.high, low |-> r.low, close |-> r.close, ltp |-> r.close,
               volume |-> r.volume, oi |-> r.oi])
    ELSE None

-----------------------------------------------------------------------------
(* AngelPriceStreamer._handle_market_data: realtime_prices/streamer.py *)

min_update_interval == 1000

\* truthiness of an optional string: missing, None and '' are falsy
TruthyStr(o) == o # None /\ o # {<<>>}
OrStr(a, b) == IF TruthyStr(a) THEN a ELSE b

\* str.isdigit() on a one-part string
DigitTokens == {"2885"}
IsDigit(str) == Len(str) = 1 /\ str[1] \in DigitTokens

\* Lines 293-315: symbol and exchange from the topic, else from the data.
\* get_br_symbol is called with one argument and takes two
\* (database/token_db.py:122), so the call raises TypeError, which line 314
\* catches: symbol and exchange stay what the data held.
ResolveSymbol(topic, data) ==
    IF topic # None /\ Len(Val(topic)) >= 2
    THEN [symbol |-> Some(<<Val(topic)[2]>>), exchange |-> Some(<<Val(topic)[1]>>)]
    ELSE [symbol |-> OrStr(data.symbol, data.tk),
          exchange |-> OrStr(data.exchange, data.e)]

\* Lines 323-334: the canonical tick ('timestamp' is left out: nothing reads it)
Canonical(data) ==
    [ltp    |-> Or(Or(data.lp, data.ltp), Some(0)),
     open   |-> Or(Or(data.o, data.open), Some(0)),
     high   |-> Or(Or(data.h, data.high), Some(0)),
     low    |-> Or(Or(data.l, data.low), Some(0)),
     close  |-> Or(Or(Or(Or(data.c, data.close), data.lp), data.ltp), Some(0)),
     volume |-> Or(Or(data.v, data.volume), Some(0)),
     oi     |-> Or(data.oi, Some(0)),
     bid    |-> Or(Or(data.bp1, data.bid), Some(0)),
     ask    |-> Or(Or(data.sp1, data.ask), Some(0))]

\* Lines 336-339
ValidLtp(price_data) == Truthy(price_data.ltp) /\ Val(price_data.ltp) > 0

\* Lines 341-346
symbol_key(symbol, exchange) == <<symbol, exchange>>
\* (a callback that never waits between two writes for a key)
WriteAllowedAlways(key) ==
    \/ key \notin DOMAIN _last_db_update
    \/ now - _last_db_update[key] >= 0
WriteAllowed(key) ==
    \/ key \notin DOMAIN _last_db_update
    \/ now - _last_db_update[key] >= min_update_interval

\* The task asyncio.create_task(self._broadcast_update(symbol, exchange, price_data))
\* The message is the dict of lines 368-374 without 'type' and 'timestamp'.
UpdateTask(symbol, exchange, price_data) ==
    [kind |-> "update", key |-> <<>>,
     msg |-> [symbol |-> symbol, exchange |-> exchange, data |-> price_data]]

\* History: the call the step made (op), what it was given and what it answered
\* and, for the step that ends a dissemination of a key, the pass it ended
NoPass == [key |-> <<>>, start |-> {}, tried |-> {}, failed |-> {}, eligible |-> {}]
LastOp(op, symbol, exchange, price_data, valid, tried, ok) ==
    [op |-> op, symbol |-> symbol, exchange |-> exchange, data |-> price_data,
     valid |-> valid, tried |-> tried, ok |-> ok, ws |-> "", key |-> <<>>,
     held |-> FALSE, dropped |-> {}, pass |-> NoPass]
NoData == [ltp |-> None, open |-> None, high |-> None, low |-> None, close |-> None,
           volume |-> None, oi |-> None, bid |-> None, ask |-> None]
Step(op) == LastOp(op, <<>>, <<>>, NoData, FALSE, FALSE, FALSE)
WsStep(op, websocket, key, ok) ==
    [Step(op) EXCEPT !.ws = websocket, !.key = key, !.ok = ok]
\* ... of a subscribe / unsubscribe request: did the websocket hold the key?
Request(op, websocket, key, ok, subs) ==
    [WsStep(op, websocket, key, ok) EXCEPT
       !.held = websocket \in DOMAIN subs /\ \E i \in 1..Len(subs[websocket]) :
                                                subs[websocket][i] = key]

\* History: the ticks upsert_price has applied to a row, in order, and the
\* first of them (the seed)
Applied(o, symbol, exchange, price_data) ==
    LET k == RowKey(symbol, exchange)
        e == [ltp |-> Get(price_data.ltp, 0), volume |-> Get(price_data.volume, 0)]
    IN [o EXCEPT
          !.applied = [x \in (DOMAIN o.applied) \cup {k} |->
                         IF x = k
                         THEN (IF k \in DOMAIN o.applied THEN Append(o.applied[k], e) ELSE <<e>>)
                         ELSE o.applied[x]],
          !.seed = [x \in (DOMAIN o.seed) \cup {k} |->
                         IF x \in DOMAIN o.seed THEN o.seed[x] ELSE price_data]]

\* History: the last tick the callback accepted for a (symbol, exchange)
Received(o, symbol, exchange, price_data) ==
    [o EXCEPT !.received = [x \in (DOMAIN @) \cup {<<symbol, exchange>>} |->
                              IF x = <<symbol, exchange>> THEN price_data ELSE @[x]]]

\* (a callback that forwards a tick only when the store has taken it)
ForwardIfStored(queue, symbol, exchange, price_data, stored) ==
    IF stored THEN Append(queue, UpdateTask(symbol, exchange, price_data)) ELSE queue
\* Line 360: the tick is handed to _broadcast_update whatever the store did
\* (`stored`: the write was allowed and upsert_price returned True)
Forward(queue, symbol, exchange, price_data, stored) ==
    Append(queue, UpdateTask(symbol, exchange, price_data))

\* _handle_market_data(topic, data), lines 274-363. The callback runs on the
\* event loop, where asyncio.create_task has a running loop.
HandleMarketData(topic, data, fault) ==
    LET r == ResolveSymbol(topic, data)
        price_data == Canonical(data)
        received == [stats EXCEPT !.messages_received = @ + 1]
    IN
    /\ UNCHANGED <<now, mgrVars, ctlVars, rest_pending, dateVars, direct>>
    /\ IF ~TruthyStr(r.symbol) \/ ~TruthyStr(r.exchange)
       THEN /\ stats' = received
            /\ obs' = [obs EXCEPT !.last = LastOp("feed", <<>>, <<>>, price_data,
                                                  ValidLtp(price_data), FALSE, FALSE)]
            /\ UNCHANGED <<prices, real_time_ticks, tick_id_seq, _last_db_update, tasks>>
       ELSE
       LET symbol == Val(r.symbol)
           exchange == Val(r.exchange)
           key == symbol_key(symbol, exchange)
           seen == Received(obs, symbol, exchange, price_data)
       IN
       IF ~ValidLtp(price_data)
       THEN /\ stats' = received
            /\ obs' = [obs EXCEPT !.last = LastOp("feed", symbol, exchange, price_data,
                                                  FALSE, FALSE, FALSE)]
            /\ UNCHANGED <<prices, real_time_ticks, tick_id_seq, _last_db_update, tasks>>
       ELSE
       /\ tasks' = Forward(tasks, symbol, exchange, price_data,
                           WriteAllowed(key)
                             /\ upsert_price(symbol, exchange, price_data, fault).ok)
       /\ IF WriteAllowed(key)
          THEN LET u == upsert_price(symbol, exchange, price_data, fault) IN
               /\ prices' = u.prices
               /\ real_time_ticks' = u.ticks
               /\ tick_id_seq' = u.seq
               /\ IF u.ok
                  THEN /\ stats' = [received EXCEPT !.db_updates = @ + 1]
                       /\ _last_db_update' =
                            [k \in (DOMAIN _last_db_update) \cup {key} |->
                               IF k = key THEN now ELSE _last_db_update[k]]
                       /\ obs' = [Applied(seen, symbol, exchange, price_data) EXCEPT
                                    !.last = LastOp("feed", symbol, exchange, price_data,
                                                    TRUE, TRUE, TRUE),
                                    !.wrote = [k \in (DOMAIN obs.wrote) \cup {key} |->
                                                 IF k = key THEN now ELSE obs.wrote[k]]]
                  ELSE /\ stats' = received
                       /\ obs' = [seen EXCEPT !.last = LastOp("feed", symbol, exchange,
                                                  price_data, TRUE, TRUE, FALSE)]
                       /\ UNCHANGED _last_db_update
          ELSE /\ stats' = received
               /\ obs' = [seen EXCEPT !.last = LastOp("feed", symbol, exchange, price_data,
                                                      TRUE, FALSE, FALSE)]
               /\ UNCHANGED <<prices, real_time_ticks, tick_id_seq, _last_db_update>>

\* A direct call of PriceDatabase.upsert_price (src/test_system.py:63, :73)
UpsertPrice(symbol, exchange, price_data, fault) ==
    LET u == upsert_price(symbol, exchange, price_data, fault) IN
    /\ prices' = u.prices
    /\ real_time_ticks' = u.ticks
    /\ tick_id_seq' = u.seq
    /\ obs' = [(IF u.ok THEN Applied(obs, symbol, exchange, price_data) ELSE obs) EXCEPT
                 !.last = LastOp("upsert", symbol, exchange, price_data,
                                 ValidLtp(price_data), TRUE, u.ok),
                 !.upserts = @ + 1]
    /\ UNCHANGED <<dateVars, feedVars, now, tasks, mgrVars, ctlVars, rest_pending>>

-----------------------------------------------------------------------------
(* GET /price/{symbol}: realtime_prices/api.py, get_current_price *)

\* fetch_live_price_from_angel, lines 317-329: the broker's quote as a tick
QuoteResult(quote) ==
    [ltp    |-> Or(quote.ltp, Some(0)),
     open   |-> Or(quote.open, Some(0)),
     high   |-> Or(quote.high, Some(0)),
     low    |-> Or(quote.low, Some(0)),
     close  |-> IF Truthy(quote.close) \/ Truthy(quote.ltp)
                THEN Some(Get(quote.close, Get(quote.ltp, 0))) ELSE Some(0),
     volume |-> Or(quote.volume, Some(0)),
     oi     |-> Or(quote.oi, Some(0)),
     bid    |-> None,
     ask    |-> None]

\* Lines 382-387: the row is looked up; when there is none the request waits
\* for the broker's quote (await fetch_live_price_from_angel).
RestPriceLookup(symbol, exchange) ==
    /\ db_get_current_price(symbol, exchange) = None
    /\ rest_pending' = rest_pending \cup {<<symbol, exchange>>}
    /\ obs' = [obs EXCEPT !.last = Step("rest_lookup"), !.lookups = @ + 1]
    /\ UNCHANGED <<dbVars, feedVars, now, tasks, mgrVars, ctlVars>>

\* Lines 388-402: the quote arrives. `quote` is None when the broker gave
\* nothing (no token, no quote, an error): 404. Otherwise the result is
\* stored with upsert_price, whose answer is not looked at.
RestPriceFetched(symbol, exchange, quote, fault) ==
    /\ <<symbol, exchange>> \in rest_pending
    /\ rest_pending' = rest_pending \ {<<symbol, exchange>>}
    /\ UNCHANGED <<dateVars, feedVars, now, tasks, mgrVars, ctlVars>>
    /\ IF quote = None
       THEN /\ obs' = [obs EXCEPT !.last = Step("rest_404")]
            /\ UNCHANGED <<prices, real_time_ticks, tick_id_seq>>
       ELSE LET result == QuoteResult(Val(quote))
                u == upsert_price(symbol, exchange, result, fault)
            IN
            /\ prices' = u.prices
            /\ real_time_ticks' = u.ticks
            /\ tick_id_seq' = u.seq
            /\ obs' = [(IF u.ok THEN Applied(obs, symbol, exchange, result) ELSE obs) EXCEPT
                         !.last = LastOp("rest", symbol, exchange, result,
                                         ValidLtp(result), TRUE, u.ok)]

-----------------------------------------------------------------------------
(* WebSocketManager: realtime_prices/api.py *)

min_send_interval == 500
push_period == 500

\* list.remove(x): the first occurrence goes
RECURSIVE IndexOf(_, _, _)
IndexOf(list, x, i) ==
    IF i > Len(list) THEN 0
    ELSE IF list[i] = x THEN i ELSE IndexOf(list, x, i + 1)
ListRemove(list, x) ==
    LET i == IndexOf(list, x, 1) IN
    IF i = 0 THEN list ELSE SubSeq(list, 1, i - 1) \o SubSeq(list, i + 1, Len(list))
InList(x, list) == \E i \in 1..Len(list) : list[i] = x

\* self.subscriptions.get(websocket, [])
SubscribedSymbols(subs, websocket) ==
    IF websocket \in DOMAIN subs THEN subs[websocket] ELSE <<>>

\* connect(websocket), lines 135-140
connect(conns, subs, websocket) ==
    [conns |-> Append(conns, websocket),
     subs |-> [w \in (DOMAIN subs) \cup {websocket} |->
                 IF w = websocket THEN <<>> ELSE subs[w]]]

\* (a disconnect that forgets the websocket's subscriptions)
disconnectKeepingSubscriptions(conns, subs, websocket) ==
    [conns |-> IF InList(websocket, conns) THEN ListRemove(conns, websocket) ELSE conns,
     subs |-> subs]
\* disconnect(websocket), lines 142-148
disconnect(conns, subs, websocket) ==
    [conns |-> IF InList(websocket, conns) THEN ListRemove(conns, websocket) ELSE conns,
     subs |-> [w \in (DOMAIN subs) \ {websocket} |-> subs[w]]]

\* (a subscribe_symbol that appends without looking)
subscribe_symbolAlways(subs, websocket, symbol) ==
    LET s1 == IF websocket \in DOMAIN subs THEN subs
              ELSE [w \in (DOMAIN subs) \cup {websocket} |->
                      IF w = websocket THEN <<>> ELSE subs[w]]
    IN [s1 EXCEPT ![websocket] = Append(@, symbol)]
\* subscribe_symbol(websocket, symbol), lines 179-186
subscribe_symbol(subs, websocket, symbol) ==
    LET s1 == IF websocket \in DOMAIN subs THEN subs
              ELSE [w \in (DOMAIN subs) \cup {websocket} |->
                      IF w = websocket THEN <<>> ELSE subs[w]]
    IN IF ~InList(symbol, s1[websocket])
       THEN [s1 EXCEPT ![websocket] = Append(@, symbol)]
       ELSE s1

\* unsubscribe_symbol(websocket, symbol), lines 188-193
unsubscribe_symbol(subs, websocket, symbol) ==
    IF websocket \in DOMAIN subs /\ InList(symbol, subs[websocket])
    THEN [subs EXCEPT ![websocket] = ListRemove(@, symbol)]
    ELSE subs

\* The key a consumer registers: f"{exchange}_{symbol}", lines 744-746
ManagerKey(symbol, exchange) == exchange \o symbol

\* History: `message` was handed to a websocket's send_text, which went
\* through (sent) or raised; when each websocket last got a message of a key
Send(o, op, websocket, key, message, sent) ==
    [o EXCEPT
       !.last = [LastOp(op, message.symbol, message.exchange, message.data, TRUE, TRUE, sent)
                   EXCEPT !.ws = websocket, !.key = key],
       !.sent_at = IF sent
                   THEN [x \in (DOMAIN @) \cup {<<websocket, key>>} |->
                           IF x = <<websocket, key>> THEN now ELSE @[x]]
                   ELSE @]

Range(list) == {list[i] : i \in 1..Len(list)}

\* The connected websockets subscribed to `key`
Subscribers(conns, subs, key) ==
    {w \in Range(conns) : InList(key, SubscribedSymbols(subs, w))}

\* History of a dissemination of `key` that has ended: the websockets
\* subscribed when it began (start) and still when it ended (eligible), those
\* it handed the message to (tried) and those whose send raised (failed)
EndedPass(key, start, tried, failed, conns, subs) ==
    [key |-> key, start |-> start, tried |-> tried, failed |-> failed,
     eligible |-> start \cap Subscribers(conns, subs, key)]

\* History: disconnect(websocket) ran for every websocket of `dropped`, and
\* what each one was subscribed to when it first did
Drop(o, dropped) ==
    [o EXCEPT
       !.last = [@ EXCEPT !.dropped = dropped],
       !.gone = [w \in (DOMAIN @) \cup dropped |->
                   IF w \in DOMAIN @ THEN @[w]
                   ELSE Range(SubscribedSymbols(subscriptions, w))]]

\* The websockets the server has accepted or will accept
Consumers == {"w1", "w2"}

\* websocket_endpoint, line 733: await manager.connect(websocket)
WsConnect(websocket) ==
    /\ endpoints[websocket] = "new"
    /\ LET c == connect(active_connections, subscriptions, websocket) IN
       /\ active_connections' = c.conns
       /\ subscriptions' = c.subs
    /\ endpoints' = [endpoints EXCEPT ![websocket] = "open"]
    /\ obs' = [obs EXCEPT !.last = WsStep("connect", websocket, <<>>, TRUE)]
    /\ UNCHANGED <<dbVars, feedVars, now, tasks, latest_prices, lp_order, last_sent, push,
                   inflight, rest_pending, ctlVars>>

\* send_personal_message(message, websocket), lines 150-156, after the
\* registry is `subs`: a failed send disconnects the websocket
AfterPersonalMessage(subs, websocket, sent) ==
    IF sent THEN [conns |-> active_connections, subs |-> subs]
    ELSE disconnect(active_connections, subs, websocket)

\* websocket_endpoint, lines 743-756: a 'subscribe' message and its ack
WsSubscribe(websocket, symbol, exchange, sent) ==
    /\ endpoints[websocket] = "open"
    /\ LET key == ManagerKey(symbol, exchange)
           r == AfterPersonalMessage(subscribe_symbol(subscriptions, websocket, key),
                                     websocket, sent)
       IN /\ active_connections' = r.conns
          /\ subscriptions' = r.subs
          /\ obs' = Drop([obs EXCEPT !.last = Request("subscribe", websocket, key, sent,
                                                        subscriptions)],
                          IF sent THEN {} ELSE {websocket})
    /\ UNCHANGED <<dbVars, feedVars, now, tasks, latest_prices, lp_order, last_sent, push,
                   inflight, rest_pending, endpoints, ctlVars>>

\* websocket_endpoint, lines 758-771: an 'unsubscribe' message and its ack
WsUnsubscribe(websocket, symbol, exchange, sent) ==
    /\ endpoints[websocket] = "open"
    /\ LET key == ManagerKey(symbol, exchange)
           r == AfterPersonalMessage(unsubscribe_symbol(subscriptions, websocket, key),
                                     websocket, sent)
       IN /\ active_connections' = r.conns
          /\ subscriptions' = r.subs
          /\ obs' = Drop([obs EXCEPT !.last = Request("unsubscribe", websocket, key, sent,
                                                        subscriptions)],
                          IF sent THEN {} ELSE {websocket})
    /\ UNCHANGED <<dbVars, feedVars, now, tasks, latest_prices, lp_order, last_sent, push,
                   inflight, rest_pending, endpoints, ctlVars>>

\* websocket_endpoint, lines 787-791: receive_text raises, the endpoint ends
WsDisconnect(websocket) ==
    /\ endpoints[websocket] = "open"
    /\ LET r == disconnect(active_connections, subscriptions, websocket) IN
       /\ active_connections' = r.conns
       /\ subscriptions' = r.subs
    /\ endpoints' = [endpoints EXCEPT ![websocket] = "done"]
    /\ obs' = Drop([obs EXCEPT !.last = WsStep("disconnect", websocket, <<>>, TRUE)],
                    {websocket})
    /\ UNCHANGED <<dbVars, feedVars, now, tasks, latest_prices, lp_order, last_sent, push,
                   inflight, rest_pending, ctlVars>>

-----------------------------------------------------------------------------
(* The event loop: _broadcast_update and manager.broadcast tasks *)

\* _broadcast_update, streamer.py lines 390-420: the message is stored in
\* manager.latest_prices and a manager.broadcast task is scheduled
\* (loop.call_soon + create_task, line 413) behind `queue`; `st` is stats as
\* the direct sends left it.
StoreLatest(message, queue, st) ==
    LET key == ManagerKey(message.symbol, message.exchange) IN
    /\ latest_prices' = [k \in (DOMAIN latest_prices) \cup {key} |->
                           IF k = key THEN message ELSE latest_prices[k]]
    /\ lp_order' = IF key \in DOMAIN latest_prices THEN lp_order
                   ELSE Append(lp_order, key)
    /\ tasks' = Append(queue, [kind |-> "broadcast", key |-> key, msg |-> message])
    /\ obs' = [obs EXCEPT !.last = WsStep("update", "", key, TRUE),
                           !.dirty = @ \cup {key}]
    /\ stats' = [st EXCEPT !.broadcast_count = @ + 1]

\* A _broadcast_update task suspended in `await websocket.send_text` to the
\* direct subscriber `pending`; `left` are the websockets of
\* self._subscribers.copy() still to come
DirectFrame(message, pending, left, disconnected) ==
    [msg |-> message, pending |-> pending, left |-> left, disconnected |-> disconnected]

\* AngelPriceStreamer._broadcast_update, streamer.py lines 365-427, from its
\* start: with no direct subscriber it runs to its end without an await;
\* otherwise it suspends in the first send of the loop of lines 381-386 (a
\* set is iterated in an order of its own).
RunBroadcastUpdate ==
    /\ tasks # <<>>
    /\ Head(tasks).kind = "update"
    /\ LET message == Head(tasks).msg IN
       IF _subscribers = {}
       THEN /\ StoreLatest(message, Tail(tasks), stats)
            /\ direct' = direct
       ELSE \E w \in _subscribers :
            /\ direct' = Append(direct, DirectFrame(message, w, _subscribers \ {w}, {}))
            /\ tasks' = Tail(tasks)
            /\ obs' = [obs EXCEPT !.last = WsStep("direct", w, <<>>, TRUE)]
            /\ UNCHANGED <<latest_prices, lp_order, stats>>
    /\ UNCHANGED <<dbVars, _last_db_update, now, active_connections, subscriptions, last_sent,
                   push, inflight, rest_pending, endpoints, ctlVars>>

\* A _broadcast_update task resumes after a direct send, which went through
\* (sent) or raised: the next subscriber's send, or lines 388-420. Sends to
\* one websocket complete in the order they were issued.
ResumeBroadcastUpdate(n, sent) ==
    /\ n \in 1..Len(direct)
    /\ \A m \in 1..(n - 1) : direct[m].pending # direct[n].pending
    /\ LET f == direct[n]
           st == IF sent THEN [stats EXCEPT !.broadcast_count = @ + 1] ELSE stats
           disconnected == IF sent THEN f.disconnected ELSE f.disconnected \cup {f.pending}
       IN IF f.left # {}
          THEN \E w \in f.left :
               /\ direct' = [direct EXCEPT ![n] =
                               DirectFrame(f.msg, w, f.left \ {w}, disconnected)]
               /\ stats' = st
               /\ obs' = [obs EXCEPT !.last = WsStep("direct", w, <<>>, sent)]
               /\ UNCHANGED <<tasks, latest_prices, lp_order, _subscribers>>
          ELSE /\ _subscribers' = _subscribers \ disconnected
               /\ direct' = SubSeq(direct, 1, n - 1) \o SubSeq(direct, n + 1, Len(direct))
               /\ StoreLatest(f.msg, tasks, st)
    /\ UNCHANGED <<dbVars, _last_db_update, now, active_connections, subscriptions, last_sent,
                   push, inflight, rest_pending, endpoints, running, connected,
                   reconnect_attempts, ws_adapter, adapters, loops, symbols, authVars>>

\* add_subscriber(websocket), remove_subscriber(websocket): lines 468-478
add_subscriber(websocket) ==
    /\ _subscribers' = _subscribers \cup {websocket}
    /\ obs' = [obs EXCEPT !.last = WsStep("add_subscriber", websocket, <<>>, TRUE)]
    /\ UNCHANGED <<dbVars, feedVars, now, tasks, mgrVars, rest_pending, running, connected,
                   reconnect_attempts, ws_adapter, adapters, loops, symbols, authVars>>

remove_subscriber(websocket) ==
    /\ _subscribers' = _subscribers \ {websocket}
    /\ obs' = [obs EXCEPT !.last = WsStep("remove_subscriber", websocket, <<>>, TRUE)]
    /\ UNCHANGED <<dbVars, feedVars, now, tasks, mgrVars, rest_pending, running, connected,
                   reconnect_attempts, ws_adapter, adapters, loops, symbols, authVars>>

\* The first index j >= i of `conns` whose websocket is subscribed to `key`,
\* 0 when there is none: the `continue` of line 168 / the `if` of line 221
RECURSIVE NextSubscribed(_, _, _, _)
NextSubscribed(conns, subs, key, i) ==
    IF i > Len(conns) THEN 0
    ELSE IF InList(key, SubscribedSymbols(subs, conns[i])) THEN i
    ELSE NextSubscribed(conns, subs, key, i + 1)

\* broadcast, lines 175-177: for ws in disconnected: self.disconnect(ws)
RECURSIVE CleanUp(_, _, _)
CleanUp(conns, subs, disconnected) ==
    IF disconnected = <<>> THEN [conns |-> conns, subs |-> subs]
    ELSE LET r == disconnect(conns, subs, Head(disconnected)) IN
         CleanUp(r.conns, r.subs, Tail(disconnected))

\* broadcast(message, symbol_filter), lines 158-177, from the position of
\* `frame` to its next `await websocket.send_text` (which goes through or
\* raises, `sent`) or to its end. The list is iterated in place: frame.i is
\* the iterator's index into the live active_connections.
BroadcastRun(frame, sent) ==
    LET j == NextSubscribed(active_connections, subscriptions, frame.key, frame.i) IN
    IF j = 0
    THEN LET r == CleanUp(active_connections, subscriptions, frame.disconnected) IN
         [done |-> TRUE, frame |-> frame, conns |-> r.conns, subs |-> r.subs,
          obs |-> Drop([obs EXCEPT !.last =
                          [WsStep("broadcast_end", "", frame.key, TRUE) EXCEPT
                             !.pass = IF frame.hist
                                      THEN EndedPass(frame.key, frame.start, frame.tried,
                                                     Range(frame.disconnected),
                                                     active_connections, subscriptions)
                                      ELSE NoPass]],
                       Range(frame.disconnected))]
    ELSE LET websocket == active_connections[j] IN
         [done |-> FALSE,
          frame |-> [frame EXCEPT !.i = j + 1,
                                  !.tried = IF frame.hist THEN @ \cup {websocket} ELSE @,
                                  !.disconnected = IF sent THEN @ ELSE Append(@, websocket)],
          conns |-> active_connections, subs |-> subscriptions,
          obs |-> Send(obs, "broadcast", websocket, frame.key, frame.msg, sent)]

\* A manager.broadcast task starts (hist: the history of the pass is kept)
StartBroadcast(sent, hist) ==
    /\ tasks # <<>>
    /\ Head(tasks).kind = "broadcast"
    /\ LET r == BroadcastRun([key |-> Head(tasks).key, msg |-> Head(tasks).msg, i |-> 1,
                              disconnected |-> <<>>,
                              hist |-> hist,
                              start |-> IF hist
                                        THEN Subscribers(active_connections, subscriptions,
                                                         Head(tasks).key)
                                        ELSE {},
                              tried |-> {}], sent)
       IN /\ active_connections' = r.conns
          /\ subscriptions' = r.subs
          /\ inflight' = IF r.done THEN inflight ELSE Append(inflight, r.frame)
          /\ obs' = r.obs
    /\ tasks' = Tail(tasks)
    /\ UNCHANGED <<dbVars, feedVars, now, latest_prices, lp_order, last_sent, push,
                   rest_pending, endpoints, ctlVars>>

\* A manager.broadcast task suspended in a send goes on
ResumeBroadcast(n, sent) ==
    /\ n \in 1..Len(inflight)
    /\ LET r == BroadcastRun(inflight[n], sent)
       IN /\ active_connections' = r.conns
          /\ subscriptions' = r.subs
          /\ inflight' = IF r.done
                         THEN SubSeq(inflight, 1, n - 1) \o SubSeq(inflight, n + 1, Len(inflight))
                         ELSE [inflight EXCEPT ![n] = r.frame]
          /\ obs' = r.obs
    /\ UNCHANGED <<dbVars, feedVars, now, tasks, latest_prices, lp_order, last_sent, push,
                   rest_pending, endpoints, ctlVars>>

-----------------------------------------------------------------------------
(* price_pusher_task and WebSocketManager.push_latest_prices *)

NoMessage == [symbol |-> <<>>, exchange |-> <<>>, data |-> NoData]
Sleeping(wake) ==
    [pc |-> "sleep", wake |-> wake, t |-> 0, n |-> 0, k |-> 0, i |-> 0, sent_count |-> 0,
     msg |-> NoMessage, hist |-> FALSE, start |-> {}, tried |-> {}, failed |-> {},
     ended |-> NoPass]

\* self.last_sent.get(symbol_key, 0)
LastSentTime(ls, key) == IF key \in DOMAIN ls THEN ls[key] ELSE 0

\* Line 213: send at most every 500 ms per symbol
SendAllowed(t, ls, key) == t - LastSentTime(ls, key) >= min_send_interval

\* push_latest_prices, lines 210-230, from the position of frame f to its
\* next `await websocket.send_text` ("send", f.i being the receiver's index)
\* or to the end of the pass ("end"), or to the RuntimeError the dict iterator
\* raises when latest_prices has grown since the pass began ("error").
\*   f.k  the key the pass is at (index into the dict's order), f.n the
\*        dict's size when its iterator was made
\*   f.i  the next index into the live active_connections, 0 between keys
RECURSIVE PushScan(_, _)
PushScan(f, ls) ==
    IF f.i > 0
    THEN LET key == lp_order[f.k]
             j == NextSubscribed(active_connections, subscriptions, key, f.i)
         IN IF j # 0
            THEN [f |-> [f EXCEPT !.i = j], ls |-> ls, at |-> "send"]
            ELSE PushScan([f EXCEPT !.i = 0,
                                    !.ended = IF f.hist
                                              THEN EndedPass(key, f.start, f.tried, f.failed,
                                                             active_connections, subscriptions)
                                              ELSE NoPass],
                          IF f.sent_count > 0
                          THEN [x \in (DOMAIN ls) \cup {key} |-> IF x = key THEN f.t ELSE ls[x]]
                          ELSE ls)
    ELSE IF Len(lp_order) # f.n THEN [f |-> f, ls |-> ls, at |-> "error"]
    ELSE IF f.k = f.n THEN [f |-> f, ls |-> ls, at |-> "end"]
    ELSE LET key == lp_order[f.k + 1] IN
         IF SendAllowed(f.t, ls, key)
         THEN PushScan([f EXCEPT !.k = f.k + 1, !.i = 1, !.sent_count = 0,
                                 !.msg = latest_prices[key],
                                 !.start = IF f.hist
                                           THEN Subscribers(active_connections,
                                                            subscriptions, key)
                                           ELSE {},
                                 !.tried = {}, !.failed = {}], ls)
         ELSE PushScan([f EXCEPT !.k = f.k + 1, !.i = 0], ls)

\* One run of the pass from frame f0 to its next suspension
PushRun(f0, sent) ==
    LET r == PushScan(f0, last_sent) IN
    /\ last_sent' = r.ls
    /\ IF r.at = "send"
       THEN LET websocket == active_connections[r.f.i]
                key == lp_order[r.f.k]
            IN /\ push' = [r.f EXCEPT !.i = @ + 1,
                                      !.sent_count = IF sent THEN @ + 1 ELSE @,
                                      !.tried = IF r.f.hist THEN @ \cup {websocket} ELSE @,
                                      !.failed = IF r.f.hist /\ ~sent
                                                 THEN @ \cup {websocket} ELSE @,
                                      !.ended = NoPass]
               /\ obs' = [Send(obs, "push", websocket, key, r.f.msg, sent) EXCEPT
                             !.last.pass = r.f.ended,
                             !.dirty = IF r.f.hist /\ sent THEN @ \ {key} ELSE @]
       ELSE /\ push' = Sleeping(now + push_period)
            /\ obs' = [obs EXCEPT !.last =
                         [WsStep(IF r.at = "end" THEN "push_end" ELSE "push_error",
                                 "", <<>>, TRUE) EXCEPT !.pass = r.f.ended]]
    /\ UNCHANGED <<dbVars, feedVars, now, tasks, active_connections, subscriptions,
                   latest_prices, lp_order, inflight, rest_pending, endpoints, ctlVars>>

\* price_pusher_task, lines 242-246: the sleep is over
PushStart(sent, hist) ==
    /\ push.pc = "sleep"
    /\ now >= push.wake
    /\ active_connections # <<>>
    /\ lp_order # <<>>
    /\ PushRun([pc |-> "run", wake |-> 0, t |-> now, n |-> Len(lp_order), k |-> 0, i |-> 0,
                sent_count |-> 0, msg |-> NoMessage, hist |-> hist, start |-> {},
                tried |-> {}, failed |-> {}, ended |-> NoPass], sent)

\* price_pusher_task, line 244 false: nothing to push, sleep again
PushIdle ==
    /\ push.pc = "sleep"
    /\ now >= push.wake
    /\ ~(active_connections # <<>> /\ lp_order # <<>>)
    /\ push' = Sleeping(now + push_period)
    /\ obs' = [obs EXCEPT !.last = Step("push_idle")]
    /\ UNCHANGED <<dbVars, feedVars, now, tasks, active_connections, subscriptions,
                   latest_prices, lp_order, last_sent, inflight, rest_pending, endpoints,
                   ctlVars>>

\* push_latest_prices resumes after a send
PushResume(sent) ==
    /\ push.pc = "run"
    /\ PushRun(push, sent)

-----------------------------------------------------------------------------
(* The clock, the inputs and the initial state *)

StartTime == 1000
HourMs == 3600000
DayMs == 86400000
MaxTime == 2500
ClockStep == 500
MaxEvents == 3
MaxLookupEvents == 2
MaxLookups == 1
MaxFanoutTime == 1500
MaxFanoutTicks == 1
MaxTicks == 2
MaxUpserts == 2
MaxTasks == 2

\* time passes
AdvanceTo(limit) ==
    /\ now + ClockStep <= limit
    /\ now' = now + ClockStep
    /\ obs' = [obs EXCEPT !.last = Step("clock")]
    /\ UNCHANGED <<dbVars, feedVars, tasks, mgrVars, rest_pending, ctlVars>>
Advance == AdvanceTo(MaxTime)

RELIANCE == <<"RELIANCE">>
NIFTY == <<"NIFTY">>
NSE == <<"NSE">>
NSE_INDEX == <<"NSE", "INDEX">>

\* The configured (symbol, exchange) pairs the inputs are about
\* (streamer.py, _get_default_symbols)
Instruments == {<<RELIANCE, NSE>>, <<NIFTY, NSE_INDEX>>}

\* The adapter's callback thread and the thread of the asyncio loop
Threads == {"feed", "loop"}
IdleFrame == [pc |-> "idle", op |-> "", symbol |-> <<>>, exchange |-> <<>>, data |-> NoData,
              existing |-> {}, prior |-> {}, ok |-> FALSE, result |-> {}, calls |-> 0]

\* self.symbols as __init__ leaves it: the SymbolConfig entries (all enabled)
\* that _subscribe_symbols walks
_get_default_symbols == <<<<RELIANCE, NSE>>, <<NIFTY, NSE_INDEX>>>>

\* A tick as a caller of upsert_price hands it over
PriceData(ltp, open, high, low, volume, oi) ==
    [ltp |-> ltp, open |-> open, high |-> high, low |-> low, close |-> None,
     volume |-> volume, oi |-> oi, bid |-> None, ask |-> None]

\* open/high/low as a tick carries them: none, zeros (what the feed callback
\* makes of missing fields), or a day's range
Ranges == {<<None, None, None>>, <<{0}, {0}, {0}>>, <<{2000}, {4000}, {500}>>}
\* ltp with the volume and open interest that come with it
Trades == {<<0, 10, 0>>, <<1000, 20, 5>>, <<2004, 10, 0>>, <<3000, 20, 0>>}
UpsertTicks ==
    {PriceData({l[1]}, r[1], r[2], r[3], {l[2]}, {l[3]}) : l \in Trades, r \in Ranges}

\* A raw feed message (the dict the adapter hands to on_market_data)
RawData(lp, ltp, o, h, l, v, symbol, tk, exchange) ==
    [lp |-> lp, ltp |-> ltp, o |-> o, open |-> None, h |-> h, high |-> None,
     l |-> l, low |-> None, c |-> None, close |-> None, v |-> v, volume |-> None,
     oi |-> None, bp1 |-> None, bid |-> None, sp1 |-> None, ask |-> None,
     symbol |-> symbol, tk |-> tk, exchange |-> exchange, e |-> None]

FeedPrices == {<<None, None>>, <<{0}, None>>, <<{0 - 1000}, None>>, <<{1000}, None>>,
               <<None, {2000}>>}
FeedEvents ==
    {[topic |-> {<<"NSE", "RELIANCE", "QUOTE">>},
      data |-> RawData(p[1], p[2], None, None, None, {10}, None, None, None)] :
        p \in FeedPrices}
    \cup
    {[topic |-> {<<"NSE", "INDEX", "NIFTY", "LTP">>},
      data |-> RawData({1000}, None, None, None, None, {10}, None, None, None)]}
    \cup
    {[topic |-> None,
      data |-> RawData({1000}, None, {900}, {1100}, {800}, {10}, s[1], s[2], s[3])] :
        s \in {<<None, None, None>>, <<{RELIANCE}, None, {NSE}>>,
               <<None, {<<"2885">>}, {NSE}>>}}

\* The broker's quote for GET /price (get_quotes), None when there is none
Quote(ltp) ==
    [ltp |-> ltp, open |-> {900}, high |-> {1100}, low |-> {800}, close |-> None,
     volume |-> {10}, oi |-> None]
Quotes == {None, {Quote(None)}, {Quote({0})}, {Quote({1500})}}

Init ==
    /\ today = 1
    /\ _last_cleanup = {}
    /\ cleanup_wake = StartTime + HourMs
    /\ _lock = {}
    /\ threads = [th \in Threads |-> IdleFrame]
    /\ prices = <<>>
    /\ real_time_ticks = <<>>
    /\ tick_id_seq = 1
    /\ _last_db_update = <<>>
    /\ stats = [messages_received |-> 0, db_updates |-> 0, broadcast_count |-> 0]
    /\ _subscribers = {}
    /\ direct = <<>>
    /\ now = StartTime
    /\ tasks = <<>>
    /\ active_connections = <<>>
    /\ subscriptions = <<>>
    /\ latest_prices = <<>>
    /\ lp_order = <<>>
    /\ last_sent = <<>>
    /\ push = Sleeping(StartTime)
    /\ inflight = <<>>
    /\ rest_pending = {}
    /\ endpoints = [w \in Consumers |-> "new"]
    /\ symbols = _get_default_symbols
    /\ auth_token = None
    /\ feed_token = None
    /\ running = FALSE
    /\ connected = FALSE
    /\ reconnect_attempts = 0
    /\ ws_adapter = 0
    /\ adapters = <<>>
    /\ loops = <<>>
    /\ obs = [last |-> Step("init"), applied |-> <<>>, seed |-> <<>>, wrote |-> <<>>,
              sent_at |-> <<>>, gone |-> <<>>, upserts |-> 0, lookups |-> 0,
              received |-> <<>>, dirty |-> {},
              ctl |-> [op |-> "init", calls |-> {}, stopped |-> FALSE, delays |-> <<>>,
                       failed |-> 0, starts |-> 0, stops |-> 0]]

-----------------------------------------------------------------------------
(* The store alone: direct upsert_price calls *)

NextUpsert ==
    \E i \in Instruments, pd \in UpsertTicks, f \in Faults :
        /\ obs.upserts < MaxUpserts
        /\ UpsertPrice(i[1], i[2], pd, f)

SpecUpsert == Init /\ [][NextUpsert]_vars

-----------------------------------------------------------------------------
(* The feed callback and the clock *)

NextFeed ==
    \/ \E e \in FeedEvents, f \in Faults :
          /\ stats.messages_received < MaxEvents
          /\ HandleMarketData(e.topic, e.data, f)
    \/ Advance

SpecFeed == Init /\ [][NextFeed]_vars

-----------------------------------------------------------------------------
(* Every writer of the store: the feed callback and GET /price *)

NextLookup ==
    \/ \E e \in FeedEvents, f \in Faults :
          /\ stats.messages_received < MaxLookupEvents
          /\ HandleMarketData(e.topic, e.data, f)
    \/ \E i \in Instruments :
          /\ obs.lookups < MaxLookups
          /\ RestPriceLookup(i[1], i[2])
    \/ \E i \in Instruments, q \in Quotes, f \in Faults : RestPriceFetched(i[1], i[2], q, f)
    \/ Advance

SpecLookup == Init /\ [][NextLookup]_vars

-----------------------------------------------------------------------------
(* The fanout: consumers, the feed callback, the loop's tasks and the pusher *)

\* The feed's messages for RELIANCE on NSE, at two prices
FanoutEvents ==
    {[topic |-> {<<"NSE", "RELIANCE", "QUOTE">>},
      data |-> RawData({lp}, None, None, None, None, {10}, None, None, None)] :
        lp \in {1000, 2000}}

\* The feed callback, then the tasks it starts, and the pusher, up to `ticks`
\* feed messages (hist: the history of each pass is kept)
Disseminate(ticks, hist) ==
    \/ \E e \in FanoutEvents :
          /\ stats.messages_received < ticks
          /\ Len(tasks) < MaxTasks
          /\ HandleMarketData(e.topic, e.data, "none")
    \/ RunBroadcastUpdate
    \/ \E sent \in BOOLEAN : StartBroadcast(sent, hist)
    \/ \E n \in 1..Len(inflight), sent \in BOOLEAN : ResumeBroadcast(n, sent)
    \/ \E sent \in BOOLEAN : PushStart(sent, hist)
    \/ PushIdle
    \/ \E sent \in BOOLEAN : PushResume(sent)
    \/ (now + ClockStep <= MaxFanoutTime /\ Advance)

Dissemination(ticks) == Disseminate(ticks, FALSE)

\* Two consumers that connect, subscribe to RELIANCE (the acknowledgement
\* goes through) and disconnect
NextFanout ==
    \/ \E w \in Consumers : WsConnect(w)
    \/ \E w \in Consumers : WsSubscribe(w, RELIANCE, NSE, TRUE)
    \/ \E w \in Consumers : WsDisconnect(w)
    \/ Dissemination(MaxFanoutTicks)

SpecFanout == Init /\ [][NextFanout]_vars

\* The same two consumers, with the history of every pass
NextIsolation ==
    \/ \E w \in Consumers : WsConnect(w)
    \/ \E w \in Consumers : WsSubscribe(w, RELIANCE, NSE, TRUE)
    \/ \E w \in Consumers : WsDisconnect(w)
    \/ Disseminate(MaxFanoutTicks, TRUE)

SpecIsolation == Init /\ [][NextIsolation]_vars

\* One consumer and everything it can ask for
NextConsumer ==
    \/ WsConnect("w1")
    \/ \E sent \in BOOLEAN : WsSubscribe("w1", RELIANCE, NSE, sent)
    \/ \E sent \in BOOLEAN : WsUnsubscribe("w1", RELIANCE, NSE, sent)
    \/ WsDisconnect("w1")
    \/ Dissemination(MaxTicks)

SpecConsumer == Init /\ [][NextConsumer]_vars

\* The registry alone: two consumers, two keys
NextRegistry ==
    \/ \E w \in Consumers : WsConnect(w)
    \/ \E w \in Consumers, i \in Instruments, sent \in BOOLEAN :
          WsSubscribe(w, i[1], i[2], sent)
    \/ \E w \in Consumers, i \in Instruments, sent \in BOOLEAN :
          WsUnsubscribe(w, i[1], i[2], sent)
    \/ \E w \in Consumers : WsDisconnect(w)

SpecRegistry == Init /\ [][NextRegistry]_vars

-----------------------------------------------------------------------------
(* The feed callback given four ticks of one key in order, at any times *)

\* A price in rupees, in the unit of the model's prices (a thousandth)
Rupees(n) == n * 1000

\* The four ticks: last traded price and cumulative volume
ScenarioTicks == <<[lp |-> Rupees(100), v |-> 10], [lp |-> Rupees(102), v |-> 15],
                   [lp |-> Rupees(98), v |-> 15], [lp |-> Rupees(101), v |-> 20]>>

\* The first tick's open field, when the feed sends one
ScenarioOpens == {None, {Rupees(99)}}

MaxScenarioTime == 4000

ScenarioTick(o) ==
    LET n == stats.messages_received + 1 IN
    /\ n <= Len(ScenarioTicks)
    /\ HandleMarketData({<<"NSE", "RELIANCE", "QUOTE">>},
                        RawData({ScenarioTicks[n].lp}, None, IF n = 1 THEN o ELSE None,
                                None, None, {ScenarioTicks[n].v}, None, None, None),
                        "none")

NextScenario ==
    \/ \E o \in ScenarioOpens : ScenarioTick(o)
    \/ AdvanceTo(MaxScenarioTime)

SpecScenario == Init /\ [][NextScenario]_vars

-----------------------------------------------------------------------------
(* The controller's lifecycle (streamer.py): start_streaming, its
   _initialize_websocket / _wait_for_connection / _subscribe_symbols, the
   _streaming_loop with _handle_reconnection, and stop_streaming.  Each
   start_streaming call is a task of the event loop; `loops` holds, for every
   live task, the await it is suspended in.  The sleeps are not timed: a
   suspended task may resume at any later step. *)

reconnect_delay == 5
max_reconnect_delay == 60
max_reconnect_attempts == 10

RECURSIVE Pow2(_)
Pow2(n) == IF n = 0 THEN 1 ELSE 2 * Pow2(n - 1)

\* The controller's fields as one record
Ctl == [running |-> running, connected |-> connected, attempts |-> reconnect_attempts,
        ws |-> ws_adapter, adapters |-> adapters, subscribers |-> _subscribers,
        symbols |-> symbols, auth_token |-> auth_token, feed_token |-> feed_token]

SetCtl(c) ==
    /\ running' = c.running
    /\ connected' = c.connected
    /\ reconnect_attempts' = c.attempts
    /\ ws_adapter' = c.ws
    /\ adapters' = c.adapters
    /\ _subscribers' = c.subscribers
    /\ symbols' = c.symbols
    /\ auth_token' = c.auth_token
    /\ feed_token' = c.feed_token

\* The feed adapter (websocket_proxy/base_adapter.py gives its interface; the
\* Angel adapter itself is outside the sources): a fresh adapter is not
\* connected; connect() may raise, may leave the connection pending or may
\* have it up on return; disconnect() closes it, and an adapter whose
\* connect() raised never comes up.
NewAdapter(outcome) == [connected |-> outcome = "up", closed |-> outcome = "connect_error"]
ConnectOutcomes == {"connect_error", "pending", "up"}
Raises(outcome) == outcome = "connect_error"

\* _initialize_websocket up to and including ws_adapter.connect()
Connect(c, outcome) ==
    [c EXCEPT !.adapters = Append(@, NewAdapter(outcome)),
              !.ws = Len(c.adapters) + 1]

\* (a stop that also resets the attempt counter)
stop_streamingResetAttempts(c) ==
    [c EXCEPT !.running = FALSE, !.connected = FALSE, !.attempts = 0,
              !.adapters = IF c.ws = 0 THEN @
                           ELSE [@ EXCEPT ![c.ws] = [connected |-> FALSE, closed |-> TRUE]],
              !.subscribers = {}]
\* (a stop that leaves connected as it is)
stop_streamingKeepConnected(c) ==
    [c EXCEPT !.running = FALSE,
              !.adapters = IF c.ws = 0 THEN @
                           ELSE [@ EXCEPT ![c.ws] = [connected |-> FALSE, closed |-> TRUE]],
              !.subscribers = {}]
\* stop_streaming
stop_streaming(c) ==
    [c EXCEPT !.running = FALSE, !.connected = FALSE,
              !.adapters = IF c.ws = 0 THEN @
                           ELSE [@ EXCEPT ![c.ws] = [connected |-> FALSE, closed |-> TRUE]],
              !.subscribers = {}]

StopCalls(c) == IF c.ws = 0 THEN {} ELSE {"disconnect"}

\* (a wait without the timeout: it ends only when the adapter is connected)
_wait_for_connectionNoTimeout(c, timedout) ==
    IF c.connected \/ c.adapters[c.ws].connected
    THEN [c |-> [c EXCEPT !.connected = TRUE], waiting |-> FALSE]
    ELSE [c |-> c, waiting |-> TRUE]
\* One evaluation of _wait_for_connection's loop: `waiting` when it goes to
\* sleep(1) again; otherwise it returns, with connected forced to True after
\* the timeout.
_wait_for_connection(c, timedout) ==
    IF ~c.connected /\ ~timedout
    THEN IF c.adapters[c.ws].connected
         THEN [c |-> [c EXCEPT !.connected = TRUE], waiting |-> FALSE]
         ELSE [c |-> c, waiting |-> TRUE]
    ELSE [c |-> [c EXCEPT !.connected = TRUE], waiting |-> FALSE]

\* A task suspended in an await
Task(pc, i, from) == [pc |-> pc, i |-> i, from |-> from]

\* _initialize_websocket after connect(): wait for the connection and, when
\* the wait is over, issue the first subscribe call
AwaitConnection(c, from, timedout) ==
    LET r == _wait_for_connection(c, timedout)
    IN IF r.waiting
       THEN [c |-> r.c, task |-> Task("wait", 0, from), calls |-> {}]
       ELSE [c |-> r.c, task |-> Task("subscribe", 1, from), calls |-> {"subscribe"}]

\* _handle_reconnection: the budget test
MaxAttemptsReachedLate(attempts) == attempts > max_reconnect_attempts
MaxAttemptsReached(attempts) == attempts >= max_reconnect_attempts

\* _handle_reconnection: the delay slept before the attempt
Delay(attempts) == Min2(reconnect_delay * Pow2(attempts), max_reconnect_delay)

\* One pass of _streaming_loop from its `while self.running` test to the
\* next await: the task ends, or sleeps one second, or enters
\* _handle_reconnection, which stops the streamer when the budget is spent
\* and otherwise counts the attempt and sleeps its delay.
LoopIteration(c) ==
    IF ~c.running THEN [c |-> c, pc |-> "done", op |-> "loop_exit", calls |-> {}]
    ELSE IF c.connected THEN [c |-> c, pc |-> "loop", op |-> "loop", calls |-> {}]
    ELSE IF MaxAttemptsReached(c.attempts)
         THEN [c |-> stop_streaming(c), pc |-> "loop", op |-> "exhausted",
               calls |-> StopCalls(c)]
         ELSE [c |-> [c EXCEPT !.attempts = @ + 1], pc |-> "backoff", op |-> "backoff",
               calls |-> {}]

RemoveAt(s, n) == SubSeq(s, 1, n - 1) \o SubSeq(s, n + 1, Len(s))
PutTask(s, n, pc, from) ==
    IF pc = "done" THEN RemoveAt(s, n) ELSE [s EXCEPT ![n] = Task(pc, 0, from)]

\* History of a controller step: the operation, the calls it made to the
\* feed adapter, whether stop_streaming was the last of start/stop, the
\* delays slept and the attempts failed since the counter was last reset
CtlStep(o, op, calls) == [o EXCEPT !.ctl.op = op, !.ctl.calls = calls]
AfterLoop(o, r) ==
    [CtlStep(o, r.op, r.calls) EXCEPT
        !.ctl.stopped = IF r.op = "exhausted" THEN TRUE ELSE @,
        !.ctl.delays = IF r.op = "backoff" THEN Append(@, Delay(r.c.attempts)) ELSE @]

\* get_stats: the fields the status surface reports about the lifecycle
get_stats == [running |-> running, connected |-> connected]

restVars == <<dbVars, feedVars, mgrVars, now, tasks, rest_pending>>

\* authenticate(): both tokens are stored when the broker returns both;
\* otherwise nothing changes and the call returns False
authenticate(c, tokens) ==
    IF tokens[1] # None /\ tokens[2] # None
    THEN [c EXCEPT !.auth_token = tokens[1], !.feed_token = tokens[2]]
    ELSE c

\* start_streaming's first test: `not self.auth_token or not self.feed_token`
TokensMissing(c) == c.auth_token = None \/ c.feed_token = None

\* POST /streaming/start with an authentication that succeeds, then
\* start_streaming (the tokens are present): running is set, the adapter is
\* created and connected; an exception there ends the call in
\* stop_streaming; otherwise the task goes on to wait for the connection.
StartStreaming(outcome) ==
    LET c1 == Connect([authenticate(Ctl, <<{"jwt"}, {"feed"}>>) EXCEPT !.running = TRUE],
                      outcome)
        a  == AwaitConnection(c1, "start", FALSE)
        o  == [obs EXCEPT !.ctl.stopped = FALSE, !.ctl.starts = @ + 1]
    IN /\ IF Raises(outcome)
          THEN /\ SetCtl(stop_streaming(c1))
               /\ loops' = loops
               /\ obs' = [CtlStep(o, "start_failed", {"connect"} \cup StopCalls(c1))
                             EXCEPT !.ctl.stopped = TRUE]
          ELSE /\ SetCtl(a.c)
               /\ loops' = Append(loops, a.task)
               /\ obs' = CtlStep(o, "start", {"connect"} \cup a.calls)
       /\ UNCHANGED restVars

\* POST /streaming/stop: stop_streaming
StopStreaming ==
    /\ SetCtl(stop_streaming(Ctl))
    /\ obs' = [CtlStep(obs, "stop", StopCalls(Ctl)) EXCEPT !.ctl.stopped = TRUE,
                                                          !.ctl.stops = @ + 1]
    /\ UNCHANGED <<loops, restVars>>

\* The current adapter's connection comes up
AdapterUp ==
    /\ ws_adapter # 0
    /\ ~adapters[ws_adapter].connected
    /\ ~adapters[ws_adapter].closed
    /\ adapters' = [adapters EXCEPT ![ws_adapter].connected = TRUE]
    /\ obs' = CtlStep(obs, "adapter_up", {})
    /\ UNCHANGED <<running, connected, reconnect_attempts, ws_adapter, loops, _subscribers,
                   symbols, authVars, restVars>>

\* The rest of _streaming_loop's body after _handle_reconnection, and the
\* loop's next pass when the task does not sleep in between
AfterInitialize(c, n, from) ==
    IF from = "reconnect"
    THEN /\ SetCtl([c EXCEPT !.attempts = 0])
         /\ loops' = PutTask(loops, n, "loop", "start")
         /\ obs' = [CtlStep(obs, "reconnected", {}) EXCEPT !.ctl.delays = <<>>,
                                                            !.ctl.failed = 0]
    ELSE LET r == LoopIteration(c)
         IN /\ SetCtl(r.c)
            /\ loops' = PutTask(loops, n, r.pc, "start")
            /\ obs' = AfterLoop(obs, r)

\* A task wakes in _wait_for_connection (a wake that only sleeps again
\* changes nothing and is left out)
WaitWake(n, timedout) ==
    /\ n \in 1..Len(loops)
    /\ loops[n].pc = "wait"
    /\ LET a == AwaitConnection(Ctl, loops[n].from, timedout)
       IN /\ a.task.pc # "wait"
          /\ SetCtl(a.c)
          /\ loops' = [loops EXCEPT ![n] = a.task]
          /\ obs' = CtlStep(obs, "connected", a.calls)
    /\ UNCHANGED restVars

\* A task resumes in _subscribe_symbols after a subscribe call and its
\* sleep: the next symbol's call, or the end of _initialize_websocket
SubscribeNext(n) ==
    /\ n \in 1..Len(loops)
    /\ loops[n].pc = "subscribe"
    /\ IF loops[n].i < Len(symbols)
       THEN /\ loops' = [loops EXCEPT ![n].i = @ + 1]
            /\ obs' = CtlStep(obs, "subscribe", {"subscribe"})
            /\ UNCHANGED <<running, connected, reconnect_attempts, ws_adapter, adapters,
                           _subscribers, symbols, authVars>>
       ELSE AfterInitialize(Ctl, n, loops[n].from)
    /\ UNCHANGED restVars

\* A task wakes from _streaming_loop's sleep(1) (a pass that only sleeps
\* again changes nothing and is left out)
LoopWake(n) ==
    /\ n \in 1..Len(loops)
    /\ loops[n].pc = "loop"
    /\ LET r == LoopIteration(Ctl)
       IN /\ r.op # "loop"
          /\ SetCtl(r.c)
          /\ loops' = PutTask(loops, n, r.pc, "start")
          /\ obs' = AfterLoop(obs, r)
    /\ UNCHANGED restVars

\* A task wakes from _handle_reconnection's sleep(delay) and calls
\* _initialize_websocket; an exception is logged and the loop goes on
BackoffWake(n, outcome) ==
    /\ n \in 1..Len(loops)
    /\ loops[n].pc = "backoff"
    /\ LET c1 == Connect(Ctl, outcome)
           a  == AwaitConnection(c1, "reconnect", FALSE)
       IN IF Raises(outcome)
          THEN /\ SetCtl(c1)
               /\ loops' = PutTask(loops, n, "loop", "start")
               /\ obs' = [CtlStep(obs, "reconnect_failed", {"connect"})
                             EXCEPT !.ctl.failed = @ + 1]
          ELSE /\ SetCtl(a.c)
               /\ loops' = [loops EXCEPT ![n] = a.task]
               /\ obs' = CtlStep(obs, "reconnect", {"connect"} \cup a.calls)
    /\ UNCHANGED restVars

\* start and stop requests of a run
MaxRequests == 3
Requests == obs.ctl.starts + obs.ctl.stops

NextCtl ==
    \/ \E outcome \in ConnectOutcomes : Requests < MaxRequests /\ StartStreaming(outcome)
    \/ (Requests < MaxRequests /\ StopStreaming)
    \/ AdapterUp
    \/ \E n \in 1..Len(loops), timedout \in BOOLEAN : WaitWake(n, timedout)
    \/ \E n \in 1..Len(loops) : SubscribeNext(n)
    \/ \E n \in 1..Len(loops) : LoopWake(n)
    \/ \E n \in 1..Len(loops), outcome \in ConnectOutcomes : BackoffWake(n, outcome)

SpecCtl == Init /\ [][NextCtl]_vars

\* start_streaming called while a token is missing (no authenticate() has
\* succeeded): ValueError is raised at line 131, before anything is set
StartWithoutTokens ==
    /\ TokensMissing(Ctl)
    /\ obs' = CtlStep(obs, "start_refused", {})
    /\ UNCHANGED <<ctlVars, restVars>>

\* authenticate() with the broker's answer, and nothing else
Authenticate(tokens) ==
    /\ SetCtl(authenticate(Ctl, tokens))
    /\ loops' = loops
    /\ obs' = CtlStep(obs, "authenticate", {})
    /\ UNCHANGED restVars

\* The lifecycle with start_streaming also called before authentication
NextStart ==
    \/ \E outcome \in ConnectOutcomes : Requests < MaxRequests /\ StartStreaming(outcome)
    \/ (Requests < MaxRequests /\ StopStreaming)
    \/ AdapterUp
    \/ \E n \in 1..Len(loops), timedout \in BOOLEAN : WaitWake(n, timedout)
    \/ \E n \in 1..Len(loops) : SubscribeNext(n)
    \/ StartWithoutTokens
    \/ \E tokens \in {<<None, None>>, <<{"jwt"}, {"feed"}>>} : Authenticate(tokens)

SpecStart == Init /\ [][NextStart]_vars

\* add_symbol(symbol, exchange), lines 480-494: the configuration is
\* appended to self.symbols; `if self.running and self.ws_adapter` the
\* adapter's subscribe is called, whose answer or exception is only logged.
add_symbol(symbol, exchange) ==
    /\ symbols' = Append(symbols, <<symbol, exchange>>)
    /\ obs' = [CtlStep(obs, "add_symbol",
                       IF running /\ ws_adapter # 0 THEN {"subscribe"} ELSE {})
                 EXCEPT !.last = LastOp("add_symbol", symbol, exchange, NoData,
                                        FALSE, FALSE, FALSE)]
    /\ UNCHANGED <<running, connected, reconnect_attempts, ws_adapter, adapters, loops,
                   _subscribers, authVars, restVars>>

\* self.symbols without the entries of (symbol, exchange)
Without(list, symbol, exchange) ==
    SelectSeq(list, LAMBDA c : c # <<symbol, exchange>>)

\* remove_symbol(symbol, exchange), lines 496-508
remove_symbol(symbol, exchange) ==
    /\ symbols' = Without(symbols, symbol, exchange)
    /\ obs' = [CtlStep(obs, "remove_symbol",
                       IF running /\ ws_adapter # 0 THEN {"unsubscribe"} ELSE {})
                 EXCEPT !.last = LastOp("remove_symbol", symbol, exchange, NoData,
                                        FALSE, FALSE, FALSE)]
    /\ UNCHANGED <<running, connected, reconnect_attempts, ws_adapter, adapters, loops,
                   _subscribers, authVars, restVars>>

\* The longest self.symbols of a run
MaxSymbols == 3

\* POST /streaming/symbol/add and /remove beside the lifecycle requests and
\* the connection coming up (the tasks' subscribing passes left suspended)
NextSymbols ==
    \/ \E outcome \in ConnectOutcomes : Requests < MaxRequests /\ StartStreaming(outcome)
    \/ (Requests < MaxRequests /\ StopStreaming)
    \/ AdapterUp
    \/ \E n \in 1..Len(loops), timedout \in BOOLEAN : WaitWake(n, timedout)
    \/ \E i \in Instruments : Len(symbols) < MaxSymbols /\ add_symbol(i[1], i[2])
    \/ \E i \in Instruments : remove_symbol(i[1], i[2])

SpecSymbols == Init /\ [][NextSymbols]_vars

\* cleanup_old_ticks(days_to_keep): real_time_ticks after the DELETE of the
\* rows with timestamp < CURRENT_TIMESTAMP - INTERVAL days_to_keep DAYS, under
\* self._lock; an exception of the statement is logged and nothing is deleted.
cleanup_old_ticks(days_to_keep, fault) ==
    IF fault = "db" THEN real_time_ticks
    ELSE SelectSeq(real_time_ticks,
                   LAMBDA t : ~(t.timestamp < now - days_to_keep * DayMs))

RetentionDays == 7

\* A pass of _streaming_loop (running and connected) whose _periodic_cleanup
\* is due: no _last_cleanup yet, or one at least an hour old
PeriodicCleanupPass(n, fault) ==
    /\ n \in 1..Len(loops)
    /\ loops[n].pc = "loop"
    /\ running /\ connected
    /\ ~(_last_cleanup # None /\ now - Val(_last_cleanup) < HourMs)
    /\ real_time_ticks' = cleanup_old_ticks(RetentionDays, fault)
    /\ _last_cleanup' = Some(now)
    /\ obs' = [obs EXCEPT !.last = [Step("cleanup") EXCEPT !.ws = "streamer",
                                                           !.ok = fault = "none"]]
    /\ UNCHANGED <<today, cleanup_wake, lockVars, prices, tick_id_seq, feedVars, mgrVars, now, tasks,
                   rest_pending, ctlVars>>

\* The API's periodic_cleanup task wakes from its sleep(3600), sweeps and
\* sleeps again
periodic_cleanup(fault) ==
    /\ now >= cleanup_wake
    /\ real_time_ticks' = cleanup_old_ticks(RetentionDays, fault)
    /\ cleanup_wake' = now + HourMs
    /\ obs' = [obs EXCEPT !.last = [Step("cleanup") EXCEPT !.ws = "api",
                                                           !.ok = fault = "none"]]
    /\ UNCHANGED <<today, _last_cleanup, lockVars, prices, tick_id_seq, feedVars, mgrVars, now, tasks,
                   rest_pending, ctlVars>>

\* The wall clock moves on by an hour or by a day; date.today() follows it
Elapse(d) ==
    /\ now' = now + d
    /\ today' = 1 + (now' \div DayMs)
    /\ obs' = [obs EXCEPT !.last = Step("clock")]
    /\ UNCHANGED <<_last_cleanup, cleanup_wake, lockVars, prices, real_time_ticks, tick_id_seq,
                   feedVars, mgrVars, tasks, rest_pending, ctlVars>>

MaxDays == 8
MaxHours == 1
MaxStarts == 1
RetentionTicks == {t \in UpsertTicks : t.ltp = {1000} /\ t.high = None}

\* Retention: ticks are written while the days pass, and both sweeps run
NextRetention ==
    \/ (obs.ctl.starts < MaxStarts /\ StartStreaming("up"))
    \/ \E n \in 1..Len(loops) : SubscribeNext(n)
    \/ \E t \in RetentionTicks, fault \in {"none"} :
          obs.upserts < MaxUpserts /\ UpsertPrice(RELIANCE, NSE, t, fault)
    \/ (now + HourMs <= StartTime + MaxDays * DayMs /\
        (now - StartTime) % DayMs < MaxHours * HourMs /\ Elapse(HourMs))
    \/ (now + DayMs <= StartTime + MaxDays * DayMs /\ Elapse(DayMs))
    \/ \E n \in 1..Len(loops), fault \in {"none", "db"} : PeriodicCleanupPass(n, fault)
    \/ \E fault \in {"none", "db"} : periodic_cleanup(fault)

SpecRetention == Init /\ [][NextRetention]_vars

MaxRolloverDays == 2
RolloverTicks == {t \in UpsertTicks : t.high # {0}}

\* Date rollover: direct upsert_price calls while the days pass
NextRollover ==
    \/ \E i \in Instruments, t \in RolloverTicks, fault \in {"none", "db"} :
          obs.upserts < MaxUpserts /\ UpsertPrice(i[1], i[2], t, fault)
    \/ (now + DayMs <= StartTime + MaxRolloverDays * DayMs /\ Elapse(DayMs))

SpecRollover == Init /\ [][NextRollover]_vars

\* ---- PriceDatabase calls of two threads, statement by statement ----------
\* A thread enters `with self._lock:` when no other thread holds the RLock
LockFree(th) == _lock = None \/ _lock = {th}

LockStep(op, th, ok) == [obs EXCEPT !.last = WsStep(op, th, <<>>, ok)]
restOfLock == <<today, _last_cleanup, cleanup_wake, feedVars, mgrVars, now, tasks,
                rest_pending, ctlVars>>

\* A thread calls upsert_price or get_current_price and reaches the lock
DbCall(th, op, symbol, exchange, price_data) ==
    /\ threads[th].pc = "idle"
    /\ threads' = [threads EXCEPT ![th] =
                     [IdleFrame EXCEPT !.pc = "lock", !.op = op, !.symbol = symbol,
                                       !.exchange = exchange, !.data = price_data,
                                       !.prior = IF HasRow(symbol, exchange)
                                                 THEN Some(RowOf(symbol, exchange)) ELSE None,
                                       !.calls = threads[th].calls + 1]]
    /\ obs' = LockStep("call", th, FALSE)
    /\ UNCHANGED <<_lock, prices, real_time_ticks, tick_id_seq, restOfLock>>

\* `with self._lock:` (database.py:133, :222)
Acquire(th) ==
    /\ threads[th].pc = "lock"
    /\ LockFree(th)
    /\ _lock' = {th}
    /\ threads' = [threads EXCEPT ![th].pc = IF threads[th].op = "upsert" THEN "select"
                                                                           ELSE "read"]
    /\ obs' = LockStep("acquire", th, FALSE)
    /\ UNCHANGED <<prices, real_time_ticks, tick_id_seq, restOfLock>>

\* upsert_price: SELECT ... FROM prices WHERE date = today (database.py:141-145)
UpsertSelect(th) ==
    /\ threads[th].pc = "select"
    /\ threads' = [threads EXCEPT ![th].pc = "write",
                                  ![th].existing =
                                      IF HasRow(threads[th].symbol, threads[th].exchange)
                                      THEN Some(RowOf(threads[th].symbol, threads[th].exchange))
                                      ELSE None]
    /\ obs' = LockStep("select", th, FALSE)
    /\ UNCHANGED <<_lock, prices, real_time_ticks, tick_id_seq, restOfLock>>

\* upsert_price: the UPDATE with the values computed from the selected row,
\* or the INSERT (which the primary key rejects when the row exists by now:
\* the exception is caught at line 184 and the call returns False)
UpsertWrite(th) ==
    LET f == threads[th]
        k == RowKey(f.symbol, f.exchange)
        row == IF f.existing # None THEN UpdatedRow(Val(f.existing), f.data)
                                    ELSE InsertedRow(f.data)
        raises == f.existing = None /\ k \in DOMAIN prices
    IN /\ f.pc = "write"
       /\ IF raises
          THEN /\ prices' = prices
               /\ _lock' = _lock \ {th}
               /\ threads' = [threads EXCEPT ![th].pc = "idle", ![th].ok = FALSE]
          ELSE /\ prices' = [x \in (DOMAIN prices) \cup {k} |-> IF x = k THEN row ELSE prices[x]]
               /\ _lock' = _lock
               /\ threads' = [threads EXCEPT ![th].pc = "tick"]
       /\ obs' = LockStep("write", th, ~raises)
       /\ UNCHANGED <<real_time_ticks, tick_id_seq, restOfLock>>

\* upsert_price: _insert_tick, return True, and the lock is released
UpsertTick(th) ==
    LET f == threads[th] IN
    /\ f.pc = "tick"
    /\ real_time_ticks' = Append(real_time_ticks,
                                 TickRow(tick_id_seq, f.symbol, f.exchange, f.data))
    /\ tick_id_seq' = tick_id_seq + 1
    /\ _lock' = _lock \ {th}
    /\ threads' = [threads EXCEPT ![th].pc = "idle", ![th].ok = TRUE]
    /\ obs' = LockStep("tick", th, TRUE)
    /\ UNCHANGED <<prices, restOfLock>>

\* get_current_price: the SELECT, the dict returned, and the lock is released
ReadRow(th) ==
    LET f == threads[th] IN
    /\ f.pc = "read"
    /\ _lock' = _lock \ {th}
    /\ threads' = [threads EXCEPT ![th].pc = "idle", ![th].ok = TRUE,
                                  ![th].result = db_get_current_price(f.symbol, f.exchange)]
    /\ obs' = LockStep("read", th, TRUE)
    /\ UNCHANGED <<prices, real_time_ticks, tick_id_seq, restOfLock>>

MaxCalls == 1
LockTicks == {t \in UpsertTicks : t.ltp # {0} /\ t.high = None}
SeedTicks == {t \in UpsertTicks : t.ltp = {2004}}

\* Concurrent store calls: rows are seeded before any thread calls, then the
\* feed thread upserts while the loop's thread upserts or reads
NextLock ==
    \/ \E i \in Instruments, t \in SeedTicks :
          /\ \A th \in Threads : threads[th].calls = 0
          /\ obs.upserts < MaxUpserts
          /\ UpsertPrice(i[1], i[2], t, "none")
    \/ \E th \in Threads, i \in Instruments, t \in LockTicks :
          threads[th].calls < MaxCalls /\ DbCall(th, "upsert", i[1], i[2], t)
    \/ \E i \in Instruments :
          threads["loop"].calls < MaxCalls /\ DbCall("loop", "get", i[1], i[2], NoData)
    \/ \E th \in Threads : Acquire(th)
    \/ \E th \in Threads : UpsertSelect(th)
    \/ \E th \in Threads : UpsertWrite(th)
    \/ \E th \in Threads : UpsertTick(th)
    \/ \E th \in Threads : ReadRow(th)

SpecLock == Init /\ [][NextLock]_vars

\* The feed callback with direct subscribers of the streamer: the per-tick
\* _broadcast_update tasks and the manager.broadcast tasks they schedule
NextDirect ==
    \/ \E w \in Consumers : add_subscriber(w)
    \/ \E w \in Consumers : remove_subscriber(w)
    \/ \E e \in FanoutEvents :
          /\ stats.messages_received < MaxTicks
          /\ Len(tasks) < MaxTasks
          /\ HandleMarketData(e.topic, e.data, "none")
    \/ RunBroadcastUpdate
    \/ \E n \in 1..Len(direct), sent \in BOOLEAN : ResumeBroadcastUpdate(n, sent)
    \/ \E sent \in BOOLEAN : StartBroadcast(sent, FALSE)

SpecDirect == Init /\ [][NextDirect]_vars

\* The feed connection of the adapter in use is lost: the adapter reports
\* disconnected
AdapterDown ==
    /\ ws_adapter # 0
    /\ adapters[ws_adapter].connected
    /\ adapters' = [adapters EXCEPT ![ws_adapter].connected = FALSE]
    /\ obs' = CtlStep(obs, "adapter_down", {})
    /\ UNCHANGED <<running, connected, reconnect_attempts, ws_adapter, loops, _subscribers,
                   symbols, authVars, restVars>>

\* A step of one of the controller's tasks: each sleeps for a bounded time
\* and the event loop resumes it
TaskStep ==
    \/ \E n \in 1..Len(loops), timedout \in BOOLEAN : WaitWake(n, timedout)
    \/ \E n \in 1..Len(loops) : SubscribeNext(n)
    \/ \E n \in 1..Len(loops) : LoopWake(n)
    \/ \E n \in 1..Len(loops), outcome \in ConnectOutcomes : BackoffWake(n, outcome)

\* The controller with a feed connection that can be lost
NextLoss ==
    \/ \E outcome \in ConnectOutcomes : Requests < MaxRequests /\ StartStreaming(outcome)
    \/ (Requests < MaxRequests /\ StopStreaming)
    \/ AdapterUp
    \/ AdapterDown
    \/ TaskStep

SpecLoss == Init /\ [][NextLoss]_vars /\ WF_vars(TaskStep)

\* The lifecycle requests and the controller's tasks, the tasks resumed fairly:
\* every sleep of a task is bounded and the event loop resumes it
NextReconnect ==
    \/ \E outcome \in {"pending", "up"} : Requests < MaxRequests /\ StartStreaming(outcome)
    \/ (Requests < MaxRequests /\ StopStreaming)
    \/ AdapterUp
    \/ TaskStep

SpecReconnect == Init /\ [][NextReconnect]_vars /\ WF_vars(TaskStep)

\* The lifecycle requests with a consumer of the WebSocketManager and the
\* dissemination running (the controller's own tasks left suspended)
NextStop ==
    \/ WsConnect("w1")
    \/ WsSubscribe("w1", RELIANCE, NSE, TRUE)
    \/ \E outcome \in ConnectOutcomes : Requests < MaxRequests /\ StartStreaming(outcome)
    \/ (Requests < MaxRequests /\ StopStreaming)
    \/ Dissemination(MaxFanoutTicks)

SpecStop == Init /\ [][NextStop]_vars

-----------------------------------------------------------------------------
(* Properties *)

MaxOf(S) == CHOOSE x \in S : \A y \in S : y <= x
MinOf(S) == CHOOSE x \in S : \A y \in S : x <= y
LtpsOf(a) == {a[i].ltp : i \in 1..Len(a)}
VolumesOf(a) == {a[i].volume : i \in 1..Len(a)}

\* C1 (upsert monotonicity): when every tick upsert_price has applied to a
\* row, starting from no row, has a strictly positive ltp, the row's high is
\* the maximum of the ticks' ltp and the first tick's explicit high, its low
\* the minimum of the ticks' ltp and the first tick's low when that is
\* strictly positive, its close the last tick's ltp and its volume the
\* maximum volume (prices compared as the DECIMAL(12,2) columns hold them).
C1_UpsertMonotonicity ==
    \A k \in DOMAIN prices :
        (k \in DOMAIN obs.applied /\ \A l \in LtpsOf(obs.applied[k]) : l > 0) =>
            LET a == obs.applied[k]
                first == obs.seed[k]
            IN /\ prices[k].high = RoundCents(MaxOf(LtpsOf(a) \cup first.high))
               /\ prices[k].low = RoundCents(MinOf(LtpsOf(a) \cup {v \in first.low : v > 0}))
               /\ prices[k].close = RoundCents(a[Len(a)].ltp)
               /\ prices[k].volume = MaxOf(VolumesOf(a))

\* C2 (rejection law): a step of the feed callback or of the REST price
\* lookup whose tick has a missing, zero or negative ltp changes no row of
\* prices, no row of real_time_ticks, and schedules no broadcast.
C2_RejectionLaw ==
    [][(obs'.last.op \in {"feed", "rest"} /\ ~obs'.last.valid)
          => UNCHANGED <<prices, real_time_ticks, tasks>>]_vars

\* C3 (fanout cap): a price message that reaches a consumer for a key comes
\* at least min_send_interval after the previous message that reached that
\* consumer for that key, whichever path delivered either (the per-tick
\* broadcast or the pusher's pass), and it carries the latest tick of the
\* key (the one the broadcaster holds in latest_prices).
C3_FanoutCap ==
    [][(obs'.last.op \in {"broadcast", "push"} /\ obs'.last.ok) =>
          LET x == <<obs'.last.ws, obs'.last.key>> IN
          /\ x \in DOMAIN obs.sent_at => now - obs.sent_at[x] >= min_send_interval
          /\ obs'.last.data = latest_prices[obs'.last.key].data]_vars

\* C7 (disconnect cleanup): once disconnect(consumer) has run, no broadcast
\* and no pusher pass hands a message to that consumer; and the step in which
\* disconnect runs leaves the consumer without a subscription entry and out
\* of the connection list.
C7_DisconnectCleanup ==
    [][/\ obs'.last.op \in {"broadcast", "push"} => obs'.last.ws \notin DOMAIN obs.gone
       /\ \A w \in obs'.last.dropped :
             w \notin DOMAIN subscriptions' /\ ~InList(w, active_connections')]_vars

\* C7 happens: a message of a key is delivered to a consumer after another
\* consumer, subscribed to that key, was disconnected
C7_Witness ==
    /\ obs.last.op \in {"broadcast", "push"}
    /\ obs.last.ok
    /\ \E w \in DOMAIN obs.gone : obs.last.key \in obs.gone[w] /\ w # obs.last.ws

CountOf(x, list) == Cardinality({i \in 1..Len(list) : list[i] = x})

\* C8 (idempotent subscription): after a subscribe request the consumer
\* holds the key exactly once, and a request for a key it already held
\* changes nothing; after an unsubscribe request it does not hold the key,
\* and a request for a key it did not hold changes nothing.
C8_IdempotentSubscription ==
    [][(obs'.last.op \in {"subscribe", "unsubscribe"} /\ obs'.last.ok) =>
          LET w == obs'.last.ws
              key == obs'.last.key
          IN IF obs'.last.op = "subscribe"
             THEN /\ CountOf(key, SubscribedSymbols(subscriptions', w)) = 1
                  /\ obs'.last.held => subscriptions' = subscriptions
             ELSE /\ CountOf(key, SubscribedSymbols(subscriptions', w)) = 0
                  /\ ~obs'.last.held => subscriptions' = subscriptions]_vars

\* C8 happens: a consumer has subscribed to a key it already held
C8_Witness ==
    /\ obs.last.op = "subscribe"
    /\ obs.last.ok
    /\ obs.last.held

\* C10 (persistence rate limit): a successful write of the feed callback for
\* a key comes at least min_update_interval after the previous successful
\* write of the feed callback for that key; and after a write that failed the
\* key may be written at once (the failure did not consume the window).
C10_RateLimit ==
    [][(obs'.last.op = "feed" /\ obs'.last.tried) =>
          LET key == symbol_key(obs'.last.symbol, obs'.last.exchange) IN
          IF obs'.last.ok
          THEN key \in DOMAIN obs.wrote => now - obs.wrote[key] >= min_update_interval
          ELSE (key \notin DOMAIN _last_db_update'
                  \/ now' - _last_db_update'[key] >= min_update_interval)]_vars

\* C10 happens: two successful writes of the feed callback for one key
C10_Witness ==
    /\ obs.last.op = "feed"
    /\ obs.last.ok
    /\ stats.db_updates = 2
    /\ Cardinality(DOMAIN obs.wrote) = 1

\* C4 (backoff sequence): the delays slept by the reconnection attempts made
\* since the attempt counter was last 0 are 5, 10, 20, 40, 60, 60, ...: the
\* k-th of them (k = 0, 1, 2, ...) is min(reconnect_delay * 2^k,
\* max_reconnect_delay) seconds.
C4_BackoffSequence ==
    \A k \in 1..Len(obs.ctl.delays) :
        obs.ctl.delays[k] = Min2(reconnect_delay * Pow2(k - 1), max_reconnect_delay)

\* C5 (stop is terminal): from a stop_streaming call until the next
\* start_streaming call the controller has running = false and
\* connected = false, and no step issues a connect or subscribe call to the
\* feed adapter.
C5_StopTerminal ==
    [][(obs'.ctl.stopped => (~running' /\ ~connected'))
       /\ ((obs.ctl.stopped /\ obs'.ctl.starts = obs.ctl.starts)
              => obs'.ctl.calls \cap {"connect", "subscribe"} = {})]_vars

\* C6 (retry exhaustion): when _handle_reconnection is entered with the
\* budget of max_reconnect_attempts spent, it stops the streamer (running
\* and connected become false, the status reports running = false) and
\* starts no attempt; it stops the streamer only then; an attempt is started
\* only while running holds; and a failed attempt leaves running as it was.
C6_RetryExhaustion ==
    [][/\ (obs'.ctl.op \in {"exhausted", "backoff"}
             /\ reconnect_attempts >= max_reconnect_attempts)
          => (obs'.ctl.op = "exhausted" /\ ~running' /\ ~connected'
              /\ ~get_stats'.running /\ obs'.ctl.stopped
              /\ reconnect_attempts' = reconnect_attempts)
       /\ obs'.ctl.op = "exhausted" => reconnect_attempts >= max_reconnect_attempts
       /\ obs'.ctl.op = "backoff" => (running /\ reconnect_attempts' = reconnect_attempts + 1)
       /\ obs'.ctl.op = "reconnect_failed" => running' = running]_vars

\* C6: the streamer has just been stopped after ten consecutive failed
\* reconnection attempts
C6_Witness ==
    /\ obs.ctl.op = "exhausted"
    /\ obs.ctl.failed = max_reconnect_attempts
    /\ Len(obs.ctl.delays) = max_reconnect_attempts
    /\ ~running


\* C9 (end-to-end scenario): once the feed callback has received the four
\* ticks of RELIANCE on NSE (prices 100, 102, 98, 101, volumes 10, 15, 15,
\* 20), whatever their arrival times, today's row of the key has open = 100
\* (or the first tick's open field), high = 102, low = 98, close = 101 and
\* volume = 20.
C9_EndToEndScenario ==
    stats.messages_received = Len(ScenarioTicks) =>
        /\ HasRow(RELIANCE, NSE)
        /\ LET row == RowOf(RELIANCE, NSE)
               first == obs.seed[RowKey(RELIANCE, NSE)]
           IN /\ row.open = (IF Val(first.open) > 0 THEN Val(first.open) ELSE Rupees(100))
              /\ row.high = Rupees(102)
              /\ row.low = Rupees(98)
              /\ row.close = Rupees(101)
              /\ row.volume = 20


\* C11 (delivery isolation): when a dissemination of a key (a broadcast or
\* the pusher's pass over the key) in which a send to some consumer raised
\* has ended, every other consumer that was connected and subscribed to the
\* key from its beginning to its end was handed the message in it.
C11_DeliveryIsolation ==
    LET p == obs.last.pass IN
    p.failed # {} => (p.eligible \ p.failed) \subseteq p.tried


\* C12 (a delivery failure drops the consumer): when a dissemination of a
\* key (a broadcast or the pusher's pass over the key) has ended, every
\* consumer whose send raised in it is out of the registry: it is neither in
\* active_connections nor in subscriptions, so that no later pass finds it.
C12_FailureDropsConsumer ==
    \A w \in obs.last.pass.failed :
        ~InList(w, active_connections) /\ w \notin DOMAIN subscriptions


C14_ExplicitHigh ==
    [][\A i \in Instruments :
        (/\ obs'.last.op = "upsert"
         /\ obs'.last.ok
         /\ obs'.last.symbol = i[1] /\ obs'.last.exchange = i[2]
         /\ HasRow(i[1], i[2])
         /\ obs'.last.data.high # None
         /\ Val(obs'.last.data.high) > RowOf(i[1], i[2]).high
         /\ Val(obs'.last.data.high) > Get(obs'.last.data.ltp, 0))
           => LET got == db_get_current_price(i[1], i[2])' IN
              /\ got # None
              /\ Val(got).high = RoundCents(Val(obs'.last.data.high))]_vars


\* C15 (write/read round trip): after an upsert_price call that returned True
\* for a tick with positive ltp, get_current_price for the same (symbol,
\* exchange) returns a row whose ltp and close both equal that tick's ltp;
\* for a key no upsert_price call was applied to it returns None.
C15_RoundTrip ==
    [][\A i \in Instruments :
        LET got == db_get_current_price(i[1], i[2])' IN
        /\ (/\ obs'.last.op = "upsert"
            /\ obs'.last.ok
            /\ obs'.last.symbol = i[1] /\ obs'.last.exchange = i[2]
            /\ Get(obs'.last.data.ltp, 0) > 0)
              => /\ got # None
                 /\ Val(got).ltp = Val(obs'.last.data.ltp)
                 /\ Val(got).close = Val(obs'.last.data.ltp)
        /\ RowKey(i[1], i[2])' \notin DOMAIN obs'.applied => got = None]_vars


\* C16 (status truthfulness): in every reachable state get_stats reports
\* connected = true only if the adapter in use reports connected; an attempt
\* that timed out without the adapter confirming is never reported connected.
C16_StatusTruthful ==
    get_stats.connected => (ws_adapter # 0 /\ adapters[ws_adapter].connected)


\* C17 (row invariant): in every reachable state of the store, every row of
\* prices written only from ticks with positive ltp has high >= open,
\* high >= close and high >= every ltp written into it, and, when its low is
\* strictly positive, low <= every ltp written into it (the ltps compared as
\* the DECIMAL(12,2) columns hold them).
C17_RowInvariant ==
    \A k \in DOMAIN prices :
        (k \in DOMAIN obs.applied /\ \A l \in LtpsOf(obs.applied[k]) : l > 0) =>
            /\ prices[k].high >= prices[k].open
            /\ prices[k].high >= prices[k].close
            /\ \A l \in LtpsOf(obs.applied[k]) : prices[k].high >= RoundCents(l)
            /\ prices[k].low > 0 =>
                 \A l \in LtpsOf(obs.applied[k]) : prices[k].low <= RoundCents(l)


\* C18 (attempt counter reset): whenever the controller is streaming (running
\* and connected) the reconnect attempt counter is 0, also after an explicit
\* restart that follows retry exhaustion.
C18_CounterReset ==
    (running /\ connected) => reconnect_attempts = 0


C20_LossDetection ==
    (running /\ connected /\ obs.ctl.op = "adapter_down") ~> ~connected


\* C21 (first-insert seeding): when upsert_price creates a new row, open is
\* the tick's open if present and non-zero, otherwise the tick's ltp; high
\* and low likewise; close = ltp, volume and oi the tick's (prices as the
\* DECIMAL(12,2) columns hold them). A tick with open/high/low = 0 yields a
\* row with open = high = low = ltp.
C21_FirstInsertSeeding ==
    [][\A i \in Instruments :
        (/\ obs'.last.op = "upsert"
         /\ obs'.last.ok
         /\ obs'.last.symbol = i[1] /\ obs'.last.exchange = i[2]
         /\ ~HasRow(i[1], i[2]))
           => LET d == obs'.last.data
                  ltp == Get(d.ltp, 0)
                  row == prices'[RowKey(i[1], i[2])]
              IN /\ row.open = RoundCents(IF Truthy(d.open) THEN Val(d.open) ELSE ltp)
                 /\ row.high = RoundCents(IF Truthy(d.high) THEN Val(d.high) ELSE ltp)
                 /\ row.low = RoundCents(IF Truthy(d.low) THEN Val(d.low) ELSE ltp)
                 /\ row.close = RoundCents(ltp)
                 /\ row.volume = Get(d.volume, 0)
                 /\ row.oi = Get(d.oi, 0)]_vars


\* C22 (unresolvable symbol): a feed event without a usable topic whose
\* identifier is a bare numeric token that the symbol mapping does not
\* resolve is dropped: the callback step that is left with the numeric token
\* as its symbol writes no row of prices, no row of real_time_ticks and
\* schedules no broadcast.
C22_UnresolvableSymbolDropped ==
    [][(obs'.last.op = "feed" /\ IsDigit(obs'.last.symbol))
         => /\ prices' = prices
            /\ real_time_ticks' = real_time_ticks
            /\ tasks' = tasks]_vars


\* C23 (dirty-key dissemination): a pass of push_latest_prices begins to
\* send a key only if a tick for that key has arrived since a pass last
\* delivered the key; with no new tick the key is not sent again, however
\* much time elapses.
C23_DirtyKeyOnly ==
    [][(/\ obs'.last.op = "push"
        /\ (push.pc = "sleep" \/ push'.k # push.k))
          => obs'.last.key \in obs.dirty]_vars


\* C24 (last value wins): once the _broadcast_update tasks of all ticks
\* received so far have finished, manager.latest_prices holds, for every key,
\* the most recently received accepted tick of that key, whatever the
\* interleaving of the tasks.
C24_LastValueWins ==
    (direct = <<>> /\ \A i \in 1..Len(tasks) : tasks[i].kind # "update") =>
        \A k \in DOMAIN obs.received :
            LET key == ManagerKey(k[1], k[2]) IN
            /\ key \in DOMAIN latest_prices
            /\ latest_prices[key].data = obs.received[k]


\* The tasks of `l` that stand after the subscribe call of the last
\* configured symbol
AtLastCall(l) ==
    Cardinality({n \in 1..Len(l) : l[n].pc = "subscribe" /\ l[n].i = Len(symbols)})

\* C25 (subscribing pass): a task in _subscribe_symbols has issued one
\* subscribe call for each configured symbol up to its position, in
\* configuration order, whatever the calls answered; each of its steps issues
\* the next symbol's call; and when the pass completes the controller is
\* streaming (running and connected).
C25_SubscribingPass ==
    [][/\ \A n \in 1..Len(loops') :
             loops'[n].pc = "subscribe" => loops'[n].i \in 1..Len(symbols)
       /\ obs'.ctl.op = "subscribe" => obs'.ctl.calls = {"subscribe"}
       /\ AtLastCall(loops') < AtLastCall(loops) => (running' /\ connected')]_vars


\* C26 (dynamic symbol changes): add_symbol / remove_symbol always update the
\* configured symbols; a subscribe / unsubscribe call is issued to the feed
\* adapter if and only if the controller is streaming (running and connected)
\* at that moment; running and connected are unchanged by the call.
C26_DynamicSymbols ==
    [][(obs'.ctl.op \in {"add_symbol", "remove_symbol"} /\ obs'.ctl.op = obs'.last.op) =>
          LET c == <<obs'.last.symbol, obs'.last.exchange>> IN
          /\ obs'.ctl.op = "add_symbol" => c \in Range(symbols')
          /\ obs'.ctl.op = "remove_symbol" => c \notin Range(symbols')
          /\ (obs'.ctl.calls # {}) <=> (running /\ connected)
          /\ running' = running /\ connected' = connected]_vars


\* C27 (tick log append): every upsert_price call that returns True has
\* appended exactly one row to real_time_ticks, carrying the tick's symbol,
\* exchange, ltp, volume, oi, bid and ask (prices as the DECIMAL(12,2) columns
\* hold them), with an id strictly greater than the id of every row appended
\* before it.
C27_TickLogAppend ==
    [][(obs'.last.op = "upsert" /\ obs'.last.ok) =>
          /\ Len(real_time_ticks') = Len(real_time_ticks) + 1
          /\ SubSeq(real_time_ticks', 1, Len(real_time_ticks)) = real_time_ticks
          /\ LET t == real_time_ticks'[Len(real_time_ticks')]
                 d == obs'.last.data
             IN /\ t.symbol = obs'.last.symbol
                /\ t.exchange = obs'.last.exchange
                /\ t.ltp = RoundCents(Get(d.ltp, 0))
                /\ t.volume = Get(d.volume, 0)
                /\ t.oi = Get(d.oi, 0)
                /\ t.bid = RoundCents(Get(d.bid, 0))
                /\ t.ask = RoundCents(Get(d.ask, 0))
                /\ \A j \in 1..Len(real_time_ticks) : real_time_ticks[j].id < t.id]_vars


\* C28 (retention pruning): a sweep by either caller (the streamer's loop or
\* the API's periodic task, both with days_to_keep = 7) removes exactly the
\* rows of real_time_ticks whose timestamp is older than the horizon, keeps
\* every row within the horizon, and leaves every prices row unchanged.
C28_RetentionPruning ==
    [][obs'.last.op = "cleanup" =>
          LET Old(t) == t.timestamp < now - RetentionDays * DayMs IN
          /\ \A j \in 1..Len(real_time_ticks') : ~Old(real_time_ticks'[j])
          /\ real_time_ticks' = SelectSeq(real_time_ticks, LAMBDA t : ~Old(t))
          /\ prices' = prices]_vars


\* C29 (per-step monotonicity within a day): every upsert_price on a key that
\* has a row for today leaves the row's open unchanged, never decreases its
\* high, never decreases its volume (also when the tick's volume is lower than
\* the stored one), never increases its low once low is strictly positive, and
\* keeps the stored oi when the tick's oi is not positive.
C29_StepMonotone ==
    [][\A i \in Instruments :
          (/\ obs'.last.op = "upsert"
           /\ obs'.last.symbol = i[1] /\ obs'.last.exchange = i[2]
           /\ RowKey(i[1], i[2]) \in DOMAIN prices) =>
             /\ RowKey(i[1], i[2]) \in DOMAIN prices'
             /\ LET old == prices[RowKey(i[1], i[2])]
                    new == prices'[RowKey(i[1], i[2])]
                IN /\ new.open = old.open
                   /\ new.high >= old.high
                   /\ new.volume >= old.volume
                   /\ old.low > 0 => new.low <= old.low
                   /\ Get(obs'.last.data.oi, 0) <= 0 => new.oi = old.oi]_vars

\* An UPDATE by a tick whose volume is below the stored volume and whose oi
\* is 0 while the row holds a positive oi, and whose ltp is a new high
C29_Witness ==
    /\ obs.last.op = "upsert" /\ obs.last.ok /\ obs.upserts = 2
    /\ RowKey(obs.last.symbol, obs.last.exchange) \in DOMAIN prices
    /\ LET row == prices[RowKey(obs.last.symbol, obs.last.exchange)]
       IN /\ row.volume > Get(obs.last.data.volume, 0)
          /\ row.oi > 0 /\ Get(obs.last.data.oi, 0) = 0
          /\ row.high = row.close /\ row.open < row.high /\ row.low > 0


\* C30 (date rollover): prices holds one row per (date, symbol, exchange); the
\* first successful upsert of a key on a date that has no row for it adds one
\* row under today's key, every field of which comes from that tick alone
\* (whatever the rows of earlier dates hold), and no upsert changes or removes
\* a row of an earlier date.
C30_DateRollover ==
    [][\A i \in Instruments :
          (/\ obs'.last.op = "upsert"
           /\ obs'.last.symbol = i[1] /\ obs'.last.exchange = i[2]) =>
             LET key == RowKey(i[1], i[2])
                 d == obs'.last.data
                 ltp == RoundCents(Get(d.ltp, 0))
             IN /\ \A k \in DOMAIN prices : k # key => (k \in DOMAIN prices' /\ prices'[k] = prices[k])
                /\ \A k \in DOMAIN prices : k[1] < today => (k \in DOMAIN prices' /\ prices'[k] = prices[k])
                /\ DOMAIN prices' \subseteq DOMAIN prices \cup {key}
                /\ (obs'.last.ok /\ key \notin DOMAIN prices) =>
                      /\ key \in DOMAIN prices'
                      /\ prices'[key].close = ltp
                      /\ prices'[key].volume = Get(d.volume, 0)
                      /\ prices'[key].oi = Get(d.oi, 0)
                      /\ prices'[key].open \in {ltp, RoundCents(Get(d.open, 0))}
                      /\ prices'[key].high \in {ltp, RoundCents(Get(d.high, 0))}
                      /\ prices'[key].low \in {ltp, RoundCents(Get(d.low, 0))}]_vars

\* The second day's first tick of a key has made a row of its own, next to the
\* first day's row of the same key, which holds other values
C30_Witness ==
    /\ obs.last.op = "upsert" /\ obs.last.ok /\ obs.upserts = 2 /\ today = 2
    /\ <<1, obs.last.symbol, obs.last.exchange>> \in DOMAIN prices
    /\ <<2, obs.last.symbol, obs.last.exchange>> \in DOMAIN prices
    /\ prices[<<1, obs.last.symbol, obs.last.exchange>>].close
         > prices[<<2, obs.last.symbol, obs.last.exchange>>].close
    /\ prices[<<1, obs.last.symbol, obs.last.exchange>>].volume
         > prices[<<2, obs.last.symbol, obs.last.exchange>>].volume


\* C31 (serialized store writes): the statements of one upsert_price or
\* get_current_price call are never interleaved with those of another thread's
\* call, and when the feed thread and the loop's thread have both upserted the
\* same key, both calls issued on the same prior row, no update is lost: the
\* row's high is the maximum and its low the minimum of both ticks' prices and
\* the prior row's.
InCall(th) == threads[th].pc \in {"select", "write", "tick", "read"}
C31_SerializedWrites ==
    LET f == threads["feed"]
        l == threads["loop"]
    IN /\ ~(InCall("feed") /\ InCall("loop"))
       /\ (/\ f.pc = "idle" /\ l.pc = "idle" /\ f.op = "upsert" /\ l.op = "upsert"
           /\ f.symbol = l.symbol /\ f.exchange = l.exchange
           /\ f.prior # None /\ f.prior = l.prior) =>
             LET P == Val(f.prior)
                 a == RoundCents(Get(f.data.ltp, 0))
                 b == RoundCents(Get(l.data.ltp, 0))
                 row == RowOf(f.symbol, f.exchange)
             IN /\ f.ok /\ l.ok
                /\ row.high = Max2(P.high, Max2(a, b))
                /\ row.low = Min2(P.low, Min2(a, b))


\* C32 (start failures): start_streaming called while a token is missing
\* raises before changing any state (running stays False, no adapter is
\* created, no task is started); a start whose initialization raises before
\* Streaming is reached ends with running = False and connected = False.
C32_StartFailures ==
    [][/\ obs'.ctl.op = "start_refused" =>
            /\ ~running' /\ ~connected'
            /\ ws_adapter' = ws_adapter /\ adapters' = adapters /\ loops' = loops
            /\ running' = running /\ connected' = connected
            /\ reconnect_attempts' = reconnect_attempts
       /\ obs'.ctl.op = "start_failed" =>
            /\ ~running' /\ ~connected'
            /\ loops' = loops]_vars

\* A second start_streaming has failed in connect() while the first start's
\* task was streaming
C32_Witness ==
    /\ obs.ctl.op = "start_failed"
    /\ obs.ctl.starts = 2
    /\ Len(loops) = 1 /\ loops[1].pc = "loop"
    /\ ~running /\ ~connected


\* C33 (single feed connection): in every state reached by start_streaming
\* and stop_streaming calls at most one start_streaming task is alive, at most
\* one adapter is connected, and every adapter other than the current one
\* (every replaced adapter) has been disconnected.
C33_SingleFeedConnection ==
    /\ Cardinality({n \in 1..Len(loops) : loops[n].pc # "done"}) <= 1
    /\ Cardinality({a \in 1..Len(adapters) : adapters[a].connected}) <= 1
    /\ \A a \in 1..Len(adapters) : a # ws_adapter => adapters[a].closed


\* C34 (registry mutation during a pass): when a dissemination of a key (a
\* broadcast or the pusher's pass over the key) has ended, every consumer that
\* was connected and subscribed to the key from its beginning to its end was
\* handed the message in it, whatever other consumers did meanwhile.
C34_MutationDuringPass ==
    obs.last.pass.eligible \subseteq obs.last.pass.tried


\* C35 (reconnect progress): whenever a pass of _streaming_loop has found
\* running = True and connected = False and entered _handle_reconnection, then,
\* the controller's tasks being resumed fairly, the controller eventually is
\* connected or is stopped (running = False): it does not retry forever.
C35_ReconnectProgress ==
    (obs.ctl.op = "backoff" /\ running /\ ~connected) ~> (connected \/ ~running)

\* The budget of attempts was spent on connections that failed, and the
\* streamer was stopped
C35_Witness ==
    /\ obs.ctl.op = "exhausted"
    /\ obs.ctl.failed = max_reconnect_attempts
    /\ ~running


\* C36 (a failed upsert leaves the store unchanged): whenever upsert_price
\* returns False, called directly or by the feed callback, prices and
\* real_time_ticks are what they were before the call, and the callback
\* leaves stats['db_updates'] and _last_db_update unchanged.
C36_FailedUpsertUnchanged ==
    [][(obs'.last.op \in {"feed", "upsert"} /\ obs'.last.tried /\ ~obs'.last.ok) =>
          /\ prices' = prices
          /\ real_time_ticks' = real_time_ticks
          /\ stats'.db_updates = stats.db_updates
          /\ _last_db_update' = _last_db_update]_vars

\* The feed callback's write of a key that has a row and a last-write time
\* has failed
C36_Witness ==
    /\ obs.last.op = "feed" /\ obs.last.tried /\ ~obs.last.ok
    /\ HasRow(obs.last.symbol, obs.last.exchange)
    /\ symbol_key(obs.last.symbol, obs.last.exchange) \in DOMAIN _last_db_update
    /\ stats.db_updates > 0


\* C37 (registry consistency): in every state every websocket that has an
\* entry in subscriptions is also in active_connections.
C37_RegistryConsistency ==
    \A w \in DOMAIN subscriptions : InList(w, active_connections)


\* C38 (key agreement between ingest and subscription): for every configured
\* (symbol, exchange), a feed message with a usable price whose topic is
\* <exchange>_<symbol>_<mode> is taken by the callback as a tick of exactly
\* that symbol and exchange, and the key under which its update will be
\* cached is the key a consumer registers for that symbol and exchange.
C38_KeyAgreement ==
    [][\A i \in Instruments, e \in FeedEvents, f \in Faults :
          (/\ \E mode \in {"LTP", "QUOTE"} : e.topic = {i[2] \o i[1] \o <<mode>>}
           /\ ValidLtp(Canonical(e.data))
           /\ HandleMarketData(e.topic, e.data, f))
          => /\ obs'.last.symbol = i[1]
             /\ obs'.last.exchange = i[2]
             /\ tasks' # <<>>
             /\ LET message == tasks'[Len(tasks')].msg IN
                ManagerKey(message.symbol, message.exchange) = ManagerKey(i[1], i[2])]_vars


\* C39 (attempt counter bounds): reconnect_attempts is always between 0 and
\* max_reconnect_attempts; it changes only by +1 when _handle_reconnection
\* starts an attempt or to 0 when an attempt has succeeded; stop_streaming,
\* called by a request, by retry exhaustion or by a failed start, leaves it
\* as it was.
C39_AttemptCounterBounds ==
    /\ [](reconnect_attempts \in 0..max_reconnect_attempts)
    /\ [][/\ reconnect_attempts' # reconnect_attempts =>
                \/ (obs'.ctl.op = "backoff" /\ reconnect_attempts' = reconnect_attempts + 1)
                \/ (obs'.ctl.op = "reconnected" /\ reconnect_attempts' = 0)
          /\ obs'.ctl.op \in {"stop", "exhausted", "start_failed"} =>
                reconnect_attempts' = reconnect_attempts]_vars

\* C39: the counter has climbed to its maximum and the stop_streaming of
\* retry exhaustion has just run
C39_Witness ==
    /\ obs.ctl.op = "exhausted"
    /\ reconnect_attempts = max_reconnect_attempts
    /\ ~running /\ ~connected


\* C40 (configured symbol set): in every state self.symbols holds at most
\* one entry per (symbol, exchange), so the number of configured entries is
\* the number of distinct configured keys.
C40_ConfiguredSymbolSet ==
    /\ \A m, n \in 1..Len(symbols) : symbols[m] = symbols[n] => m = n
    /\ Len(symbols) = Cardinality({symbols[n] : n \in 1..Len(symbols)})

====
